---- MODULE Spec2Model ----
(***************************************************************************)
(* A model of json-list-logic: the parser (src/src/parser.ts), the         *)
(* tree-walking evaluator execLogic (executor.ts), the bytecode compiler   *)
(* compileLogic and the stack machine execByteCode (src/src/bytecode.ts),  *)
(* with the built-in operations (src/src/operations.ts) and isTruthy       *)
(* (src/src/utils.ts).                                                     *)
(*                                                                         *)
(* JavaScript values are tagged records; a Logic Value is such a value: a  *)
(* JSON array is Arr(<<...>>) and an operation node is an array whose      *)
(* first element is the operator tag.  Scope objects live in a heap of     *)
(* frames linked by their prototype, because closures share them.          *)
(***************************************************************************)
EXTENDS Integers, Sequences, FiniteSets, TLC

VARIABLES src, jll, input, allowTuringComplete, operations,
          parseOut, execOut, compiled, vmOut,
          given, runs

vars == <<src, jll, input, allowTuringComplete, operations,
          parseOut, execOut, compiled, vmOut, given, runs>>

RECURSIVE seqOf(_)
RECURSIVE lookupVar(_, _, _)
RECURSIVE execIntern(_, _, _, _, _, _)
RECURSIVE execIf(_, _, _, _, _, _, _)
RECURSIVE execShort(_, _, _, _, _, _, _, _)
RECURSIVE execLetChain(_, _, _, _, _, _)
RECURSIVE execArgs(_, _, _, _, _, _, _, _)
RECURSIVE execBound(_, _, _, _, _, _, _, _, _)
RECURSIVE execObject(_, _, _, _, _, _, _, _)
RECURSIVE foldNum(_, _, _, _)
RECURSIVE chainLt(_, _)
RECURSIVE chainLtAgainstFirst(_, _)
RECURSIVE chainGt(_, _)
RECURSIVE chainLte(_, _)
RECURSIVE chainGte(_, _)
RECURSIVE oneValue(_, _, _, _)
RECURSIVE wordsOf(_, _)
RECURSIVE text(_)
RECURSIVE folded(_, _, _)
RECURSIVE indexed(_, _, _)
RECURSIVE vmCall(_, _, _, _, _)
RECURSIVE callFn(_, _, _, _, _)
RECURSIVE callBuiltin(_, _, _, _)
RECURSIVE arrayIter(_, _, _, _, _, _, _)
RECURSIVE vmExecIntern(_, _)
RECURSIVE vmStep(_, _)
RECURSIVE compileIntern(_, _, _)
RECURSIVE compileFold(_, _, _, _, _)
RECURSIVE compileIf(_, _, _, _, _)
RECURSIVE compileShort(_, _, _, _, _, _)
RECURSIVE compilePath(_, _, _, _)
RECURSIVE compileLetChain(_, _, _)
RECURSIVE compileArgs(_, _, _, _, _)
RECURSIVE compileObject(_, _, _, _)
RECURSIVE compileFns(_, _, _)
RECURSIVE patchAll(_, _, _)

(***************************************************************************)
(* Bounds of the model.                                                    *)
(***************************************************************************)
\* arguments of a generated + form
MaxArgs == 3
\* length of a generated chain of 3-argument let forms
MaxLetChain == 2
\* nested closure activations the host call stack holds before it overflows
MaxCallDepth == 2
\* the arguments of an if form
MaxIfArgs == 4
\* the operands of and, or and ??
MaxOperands == 3
\* elements of a generated array value
MaxLen == 2
\* arguments of a generated call of a registry operation
MaxCallArgs == 2
\* elements of an array that map, filter or reduce runs over
MaxItems == 3
MaxStrayAt == 4
MaxLetArgs == 4
\* the largest n the fibonacci programs are run on
MaxFibArg == 12

(***************************************************************************)
(* JavaScript values.                                                      *)
(***************************************************************************)
Undef == [t |-> "undef"]
Null == [t |-> "null"]
NaN == [t |-> "nan"]
Bool(b) == [t |-> "bool", v |-> b]
Num(n) == [t |-> "num", v |-> n]
Str(s) == [t |-> "str", v |-> s]
\* a JavaScript array: a sequence of values
Arr(s) == [t |-> "arr", v |-> s]
\* a plain object: its own enumerable keys in insertion order, and their values
Obj(ks, f) == [t |-> "obj", keys |-> ks, v |-> f]
EmptyObj == Obj(<<>>, <<>>)

IsStr(x, s) == x.t = "str" /\ x.v = s
IsNullish(x) == x.t \in {"undef", "null"}
\* typeof value === 'function'
IsFunction(x) == x.t = "fn"
\* value ?? null
OrNull(x) == IF IsNullish(x) THEN Null ELSE x

\* the elements of a sequence from index i (1-based) on
Drop(s, i) == IF i > Len(s) THEN <<>> ELSE SubSeq(s, i, Len(s))

\* !value
jsNot(value) ==
    \/ value.t \in {"undef", "null", "nan"}
    \/ value.t = "bool" /\ ~value.v
    \/ value.t = "num" /\ value.v = 0
    \/ value.t = "str" /\ value.v = ""

isTruthyArrayByContents(value) ==
    IF jsNot(value) THEN FALSE
    ELSE IF value.t = "arr"
        THEN \E i \in 1..Len(value.v) : ~jsNot(value.v[i])
    ELSE IF value.t = "obj" THEN Len(value.keys) # 0
    ELSE ~jsNot(value)

isTruthy(value) ==
    IF jsNot(value) THEN FALSE
    ELSE IF value.t = "arr" THEN Len(value.v) # 0
    ELSE IF value.t = "obj" THEN Len(value.keys) # 0
    ELSE ~jsNot(value)

\* unary plus
toNumber(x) ==
    CASE x.t = "num" -> x
      [] x.t = "null" -> Num(0)
      [] x.t = "bool" -> Num(IF x.v THEN 1 ELSE 0)
      [] x.t = "str" ->
            (CASE x.v = "" -> Num(0)
               [] x.v = "0" -> Num(0)
               [] x.v = "1" -> Num(1)
               [] OTHER -> NaN)
      [] x.t = "arr" ->
            IF Len(x.v) = 0 THEN Num(0)
            ELSE IF Len(x.v) = 1 /\ x.v[1].t = "num" THEN x.v[1]
            ELSE NaN
      [] OTHER -> NaN

\* the same with the running sum overwritten by the operand
jsAddOverwrite(a, b) == b

\* a + b on numbers
jsAdd(a, b) == IF a.t = "num" /\ b.t = "num" THEN Num(a.v + b.v) ELSE NaN
jsSub(a, b) == IF a.t = "num" /\ b.t = "num" THEN Num(a.v - b.v) ELSE NaN
jsMul(a, b) == IF a.t = "num" /\ b.t = "num" THEN Num(a.v * b.v) ELSE NaN
\* a < b on numbers (after conversion); false when either is NaN
jsLt(a, b) ==
    LET x == toNumber(a)
        y == toNumber(b)
    IN  x.t = "num" /\ y.t = "num" /\ x.v < y.v
\* a > b, a <= b and a >= b likewise
jsGt(a, b) ==
    LET x == toNumber(a)
        y == toNumber(b)
    IN  x.t = "num" /\ y.t = "num" /\ x.v > y.v
jsLte(a, b) ==
    LET x == toNumber(a)
        y == toNumber(b)
    IN  x.t = "num" /\ y.t = "num" /\ x.v <= y.v
jsGte(a, b) ==
    LET x == toNumber(a)
        y == toNumber(b)
    IN  x.t = "num" /\ y.t = "num" /\ x.v >= y.v

KEYWORDS ==
    {"fn", "var", "arg", "let", "if", "and", "or", "??", "partial",
     "Infinity", "NaN", "null", "true", "false"}

\* the names the model's programs use that match /^[a-zA-Z][_a-zA-Z0-9]*/,
\* a test that finds the pattern at the start of the name and does not look
\* at what follows it
IdentLike ==
    {"x", "y", "z", "f", "n", "v", "k", "undefined", "map", "id", "array", "print",
     "values", "fib", "x-y", "f 1", "reduce", "filter", "constructor", "toString"} \cup
    {"fn", "var", "arg", "let", "if", "and", "or", "partial",
     "Infinity", "NaN", "null", "true", "false"}

isValidName(name) == name \in IdentLike /\ name \notin KEYWORDS

(***************************************************************************)
(* The registry and the safety annotations (operations.ts).  The model     *)
(* carries the built-ins its programs call.                                *)
(***************************************************************************)
BUILTINS ==
    {"array", "+", "-", "*", "<", ">", "<=", ">=", "!", "!!", "id", "print", "length",
     "isArray", "every", "some", "none", "map", "reduce", "filter"}

SAFE_FNARGS(name) ==
    CASE name \in {"id", "toString", "isArray", "typeof"} -> <<TRUE>>
      [] name \in {"every", "some", "none", "map", "filter"} -> <<FALSE, TRUE>>
      [] name = "reduce" -> <<FALSE, TRUE, FALSE>>
      [] OTHER -> <<>>

\* what every function of options.operations returns
HostResult == Str("host")

\* the options of one execLogic / compileLogic call: allowTuringComplete, the
\* names of the registry, and the names whose safety annotation was deleted
Options(atc, host) == [atc |-> atc, ops |-> BUILTINS \cup host, host |-> host]

\* the same with the entries of the host's names left in the copy
safeFnargsKept(o, op, argind) ==
    /\ argind + 1 <= Len(SAFE_FNARGS(op))
    /\ SAFE_FNARGS(op)[argind + 1]

\* safeFnargs[op]?.[argind], with safeFnargs the copy made at the start of the call
safeFnargsAt(o, op, argind) ==
    /\ op \notin o.host
    /\ argind + 1 <= Len(SAFE_FNARGS(op))
    /\ SAFE_FNARGS(op)[argind + 1]

\* the same with no annotation consulted: every closure argument is let through
closureCheckNever(o, op, arg, argind) == FALSE

\* safeFnargs && !safeFnargs[op]?.[argind] && typeof arg === 'function'
closureCheck(o, op, arg, argind) ==
    ~o.atc /\ ~safeFnargsAt(o, op, argind) /\ IsFunction(arg)

\* op in operations
inOperations(o, op) == op.t = "str" /\ op.v \in o.ops

(***************************************************************************)
(* The state threaded through one evaluation: the heap of scope frames,    *)
(* the log of what was evaluated, the depth of the host call stack, and    *)
(* the registers of the stack machine (unused by execLogic).               *)
(***************************************************************************)
\* the prototype of a frame: NoProto for Object.create(null), ObjectProto for
\* a plain host object, otherwise the index of the parent frame
NoProto == 0
ObjectProto == -1
ObjectProtoNames == {"constructor", "toString", "hasOwnProperty", "valueOf"}

Frame(parent, vs) == [parent |-> parent, vars |-> vs]

\* the function of an object value, as the bindings of a frame
objVars(obj) == IF obj.t = "obj" THEN obj.v ELSE <<>>

Ret(st, v) == [v |-> v, st |-> st, err |-> "", msg |-> ""]
Throw(st, kind, msg) == [v |-> Undef, st |-> st, err |-> kind, msg |-> msg]

Log(st, ev, p, i, f) ==
    [st EXCEPT !.log = Append(@, [e |-> ev, p |-> p, i |-> i, f |-> f])]

\* Object.create(parent), then filled with vs
newFrame(st, parent, vs) == [st EXCEPT !.h = Append(@, Frame(parent, vs))]
newFrameId(st) == Len(st.h) + 1

\* scope[name] = value
setVar(st, scope, name, value) ==
    [st EXCEPT !.h[scope].vars = (name :> value) @@ @]

\* scope[name]: own binding, else the prototype chain
lookupVar(h, scope, name) ==
    IF scope = NoProto THEN Undef
    ELSE IF scope = ObjectProto
        THEN IF name \in ObjectProtoNames
             THEN [t |-> "fn", k |-> "native", name |-> name]
             ELSE Undef
    ELSE IF name \in DOMAIN h[scope].vars THEN h[scope].vars[name]
    ELSE lookupVar(h, h[scope].parent, name)

\* hasOwnProperty.call(obj, key): "throw" on null and undefined
hasOwn(obj, key) ==
    CASE IsNullish(obj) -> "throw"
      [] obj.t = "arr" ->
            IF \/ key.t = "num" /\ key.v >= 0 /\ key.v < Len(obj.v)
               \/ IsStr(key, "length")
            THEN "yes" ELSE "no"
      [] obj.t = "obj" ->
            IF key.t = "str" /\ key.v \in DOMAIN obj.v THEN "yes" ELSE "no"
      [] OTHER -> "no"

\* obj[key] for a key hasOwn found
getOwn(obj, key) ==
    IF obj.t = "arr"
    THEN IF key.t = "num" THEN obj.v[key.v + 1] ELSE Num(Len(obj.v))
    ELSE obj.v[key.v]

RECURSIVE getPath(_, _, _, _)
\* the loop of var and arg over path[index..]: null on a missing key
getPath(st, obj, path, index) ==
    IF index > Len(path) THEN Ret(st, OrNull(obj))
    ELSE LET own == hasOwn(obj, path[index])
         IN  IF own = "throw"
                THEN Throw(st, "TypeError", "Cannot convert undefined or null to object")
             ELSE IF own = "no" THEN Ret(st, Null)
             ELSE getPath(st, getOwn(obj, path[index]), path, index + 1)

(***************************************************************************)
(* execLogic (executor.ts): the tree-walking evaluator.  Every operator    *)
(* below takes the options o of the call, threads the state st and returns *)
(* Ret(st, value) or Throw(st, kind, message).  path is the position of    *)
(* the node in the program, kept for the log only.                         *)
(***************************************************************************)
\* code[index] (0-based); undefined past the end
at(code, index) == IF index < Len(code.v) THEN code.v[index + 1] ELSE Undef

\* the function value fn returns: names are the declared parameters, named
\* tells whether a call makes a nested scope
ClosureFn(names, named, body, bpath, scope) ==
    [t |-> "fn", k |-> "exec", names |-> names, named |-> named,
     body |-> body, bpath |-> bpath, scope |-> scope]
Builtin(name) == [t |-> "fn", k |-> "builtin", name |-> name]
\* (...args) => func(...boundArgs, ...args)
PartialFn(func, boundArgs) == [t |-> "fn", k |-> "partial", f |-> func, bound |-> boundArgs]

\* case 'fn'
execFn(code, scope, path, st) ==
    LET len == Len(code.v)
    IN  IF len <= 1 THEN Ret(st, ClosureFn(<<>>, FALSE, Null, path, scope))
        ELSE IF len = 2
            THEN Ret(st, ClosureFn(<<>>, FALSE, code.v[2], path \o <<1>>, scope))
        ELSE IF len = 3
            THEN LET arg1 == code.v[2]
                     argNames == IF arg1.t = "arr" THEN arg1.v ELSE <<arg1>>
                 IN  IF Len(argNames) > 0
                     THEN IF \E i \in 1..Len(argNames) :
                                ~(argNames[i].t = "str" /\ isValidName(argNames[i].v))
                          THEN Throw(st, "SyntaxError", "illegal argument name")
                          ELSE Ret(st, ClosureFn(argNames, TRUE, code.v[3], path \o <<2>>, scope))
                     ELSE Ret(st, ClosureFn(<<>>, FALSE, code.v[3], path \o <<2>>, scope))
        ELSE Throw(st, "SyntaxError", "fn needs 0 to 2 arguments")

\* case 'var'
execVar(code, scope, st) ==
    IF Len(code.v) <= 1
    THEN Throw(st, "SyntaxError", "var needs at least one argument")
    ELSE LET path == Drop(code.v, 2)
             first == IF path[1].t = "str"
                      THEN lookupVar(st.h, scope, path[1].v)
                      ELSE Undef
         IN  getPath(st, first, path, 2)

\* case 'arg'
execArg(code, fnargs, st) ==
    IF Len(code.v) <= 1
    THEN Throw(st, "SyntaxError", "arg needs at least one argument")
    ELSE getPath(st, Arr(fnargs), Drop(code.v, 2), 1)

\* the same, with the value expression of a pair evaluated before its
\* condition is tested
execIfEager(o, code, scope, fnargs, path, st, index) ==
    IF index >= Len(code.v) THEN Ret(st, Null)
    ELSE LET pair(c, v) ==
                 IF c.err # "" THEN c
                 ELSE IF v.err # "" THEN v
                 ELSE IF isTruthy(c.v) THEN v
                 ELSE IF index + 3 >= Len(code.v)
                     THEN execIntern(o, at(code, index + 2), scope, fnargs,
                                     path \o <<index + 2>>, v.st)
                 ELSE execIf(o, code, scope, fnargs, path, v.st, index + 2)
             cond(c) == pair(c, execIntern(o, at(code, index + 1), scope, fnargs,
                                           path \o <<index + 1>>, c.st))
         IN  cond(execIntern(o, at(code, index), scope, fnargs, path \o <<index>>, st))

\* the loop of case 'if', entered with index at a condition
execIf(o, code, scope, fnargs, path, st, index) ==
    IF index >= Len(code.v) THEN Ret(st, Null)
    ELSE LET cond(c) ==
                 IF c.err # "" THEN c
                 ELSE IF isTruthy(c.v)
                     THEN execIntern(o, at(code, index + 1), scope, fnargs,
                                     path \o <<index + 1>>, c.st)
                 ELSE IF index + 3 >= Len(code.v)
                     THEN execIntern(o, at(code, index + 2), scope, fnargs,
                                     path \o <<index + 2>>, c.st)
                 ELSE execIf(o, code, scope, fnargs, path, c.st, index + 2)
         IN  cond(execIntern(o, at(code, index), scope, fnargs, path \o <<index>>, st))

\* the same with the tests of or and and exchanged
decidesExchanged(kind, value) ==
    CASE kind = "or" -> ~isTruthy(value)
      [] kind = "??" -> ~IsNullish(value)
      [] kind = "and" -> isTruthy(value)

\* whether value ends the loop of or / ?? / and
decides(kind, value) ==
    CASE kind = "or" -> isTruthy(value)
      [] kind = "??" -> ~IsNullish(value)
      [] kind = "and" -> ~isTruthy(value)

\* the loop of case 'or', '??', 'and' and the final operand
execShort(o, kind, code, scope, fnargs, path, st, index) ==
    LET lastIndex == Len(code.v) - 1
        tested(r) ==
            IF r.err # "" THEN r
            ELSE IF decides(kind, r.v) THEN r
            ELSE execShort(o, kind, code, scope, fnargs, path, r.st, index + 1)
    IN  IF index >= lastIndex
        THEN execIntern(o, at(code, lastIndex), scope, fnargs, path \o <<lastIndex>>, st)
        ELSE tested(execIntern(o, at(code, index), scope, fnargs, path \o <<index>>, st))

\* case 'let' with 2 arguments
execLet2(o, code, scope, fnargs, path, st) ==
    LET vars1(r) ==
            IF r.err # "" THEN r
            ELSE IF jsNot(r.v) \/ r.v.t \notin {"obj", "arr"}
                THEN Throw(r.st, "TypeError",
                           "1st argument to 2 argument let needs to be an object")
            ELSE execIntern(o, code.v[3], newFrameId(r.st), fnargs, path \o <<2>>,
                            newFrame(r.st, NoProto, objVars(r.v)))
    IN  vars1(execIntern(o, code.v[2], scope, fnargs, path \o <<1>>, st))

\* the same without the loop: a let that follows is evaluated as a node of
\* its own, in a scope derived from this one
execLetChainNested(o, letInstr, newScope, fnargs, path, st) ==
    LET varName == letInstr.v[2]
        bind(r) ==
            IF r.err # "" THEN r
            ELSE execIntern(o, letInstr.v[4], newScope, fnargs, path \o <<3>>,
                            setVar(r.st, newScope, varName.v, r.v))
    IN  IF varName.t # "str"
        THEN Throw(st, "SyntaxError", "1st argument to 3 argument let needs to be a string")
        ELSE bind(execIntern(o, letInstr.v[3], newScope, fnargs, path \o <<2>>, st))

\* the for (;;) of case 'let' with 3 arguments: one binding, then the next let
\* of the chain or the body
execLetChain(o, letInstr, newScope, fnargs, path, st) ==
    LET varName == letInstr.v[2]
        childInstr == letInstr.v[4]
        child(st1) ==
            IF childInstr.t = "arr" /\ Len(childInstr.v) = 4
               /\ IsStr(childInstr.v[1], "let")
            THEN execLetChain(o, childInstr, newScope, fnargs, path \o <<3>>, st1)
            ELSE execIntern(o, childInstr, newScope, fnargs, path \o <<3>>, st1)
        bind(r) ==
            IF r.err # "" THEN r
            ELSE child(setVar(r.st, newScope, varName.v, r.v))
    IN  IF varName.t # "str"
        THEN Throw(st, "SyntaxError", "1st argument to 3 argument let needs to be a string")
        ELSE bind(execIntern(o, letInstr.v[3], newScope, fnargs, path \o <<2>>, st))

\* the loops over the bound arguments of case 'partial'; named tells whether
\* the first argument is an operation name
execBound(o, code, named, scope, fnargs, path, st, index, boundArgs) ==
    IF index >= Len(code.v) THEN Ret(st, Arr(boundArgs))
    ELSE LET bound(r) ==
                 IF r.err # "" THEN r
                 ELSE IF IF named THEN closureCheck(o, "partial", r.v, index - 2)
                         ELSE ~o.atc /\ IsFunction(r.v)
                     THEN Throw(r.st, "TypeError", "argument is of illegal type 'function'")
                 ELSE execBound(o, code, named, scope, fnargs, path, r.st, index + 1,
                                Append(boundArgs, r.v))
         IN  bound(execIntern(o, at(code, index), scope, fnargs, path \o <<index>>, st))

\* case 'partial'
execPartial(o, code, scope, fnargs, path, st) ==
    IF Len(code.v) < 2
    THEN Throw(st, "SyntaxError", "partial needs at least one argument")
    ELSE IF code.v[2].t = "arr" /\ ~o.atc
        THEN Throw(st, "TypeError", "illegal instruction when allowTuringComplete=false")
    ELSE LET applied(func, b) ==
                 IF b.err # "" THEN b ELSE Ret(b.st, PartialFn(func, b.v.v))
             first(r1, arg1) ==
                 IF r1.err # "" THEN r1
                 ELSE IF ~IsFunction(arg1) /\ arg1.t # "str"
                     THEN Throw(r1.st, "SyntaxError", "illegal first argument to partial")
                 ELSE IF ~IsFunction(arg1) /\ ~inOperations(o, arg1)
                     THEN Throw(r1.st, "ReferenceError", "function is not defined")
                 ELSE IF Len(code.v) > 2
                     THEN applied(IF IsFunction(arg1) THEN arg1 ELSE Builtin(arg1.v),
                                  execBound(o, code, ~IsFunction(arg1), scope, fnargs, path,
                                            r1.st, 2, <<>>))
                 ELSE Ret(r1.st, IF IsFunction(arg1) THEN arg1 ELSE Builtin(arg1.v))
             evaluated(r1) == first(r1, r1.v)
         IN  evaluated(IF code.v[2].t = "arr"
                       THEN execIntern(o, code.v[2], scope, fnargs, path \o <<1>>, st)
                       ELSE Ret(st, code.v[2]))

\* the same, with the closure check of an argument made after the arguments
\* that follow it have been evaluated
execArgsCheckedLate(o, code, scope, fnargs, path, st, index, args) ==
    IF index >= Len(code.v) THEN Ret(st, Arr(args))
    ELSE LET op == code.v[1]
             argind == index - 1
             late(r, rest) ==
                 IF rest.err # "" THEN rest
                 ELSE IF op.t = "str" /\ closureCheck(o, op.v, r.v, argind)
                     THEN Throw(rest.st, "TypeError", "argument is of illegal type 'function'")
                 ELSE rest
             arg(r) ==
                 IF r.err # "" THEN r
                 ELSE late(r, execArgs(o, code, scope, fnargs, path,
                                       Log(r.st, "arg", path, argind, IsFunction(r.v)),
                                       index + 1, Append(args, r.v)))
         IN  arg(execIntern(o, at(code, index), scope, fnargs, path \o <<index>>, st))

\* the argument loops of the default case; the closure check applies when the
\* operator is a name of the registry
execArgs(o, code, scope, fnargs, path, st, index, args) ==
    IF index >= Len(code.v) THEN Ret(st, Arr(args))
    ELSE LET op == code.v[1]
             argind == index - 1
             checked(r, st1) ==
                 IF r.err # "" THEN r
                 ELSE IF op.t = "str" /\ closureCheck(o, op.v, r.v, argind)
                     THEN Throw(st1, "TypeError", "argument is of illegal type 'function'")
                 ELSE execArgs(o, code, scope, fnargs, path, st1, index + 1,
                               Append(args, r.v))
             arg(r) == checked(r, Log(r.st, "arg", path, argind, IsFunction(r.v)))
         IN  arg(execIntern(o, at(code, index), scope, fnargs, path \o <<index>>, st))

\* the default case: a call of a function literal, of a computed operator or
\* of a registry operation
execCall(o, code, scope, fnargs, path, st) ==
    LET op == at(code, 0)
        apply(f, a) ==
            IF a.err # "" THEN a
            ELSE callFn(o, f.v, Undef, a.v.v, Log(a.st, "call", path, Len(a.v.v), FALSE))
        func(f) ==
            IF f.err # "" THEN f
            ELSE IF ~IsFunction(f.v)
                THEN Throw(f.st, "TypeError", "illegal operation, not a function")
            ELSE apply(f, execArgs(o, code, scope, fnargs, path, f.st, 1, <<>>))
    IN  IF (IsFunction(op) \/ op.t = "arr") /\ ~o.atc
        THEN Throw(st, "TypeError", "illegal instruction when allowTuringComplete=false")
        ELSE IF ~IsFunction(op) /\ op.t # "arr" /\ ~inOperations(o, op)
            THEN Throw(st, "ReferenceError", "function is not defined")
        ELSE func(IF op.t = "arr"
                  THEN execIntern(o, op, scope, fnargs, path \o <<0>>, st)
                  ELSE Ret(st, IF IsFunction(op) THEN op ELSE Builtin(op.v)))

\* the for (key in code) of an object literal
execObject(o, code, scope, fnargs, path, st, index, obj) ==
    IF index > Len(code.keys) THEN Ret(st, obj)
    ELSE LET key == code.keys[index]
             prop(r) ==
                 IF r.err # "" THEN r
                 ELSE execObject(o, code, scope, fnargs, path, r.st, index + 1,
                        Obj(IF key \in DOMAIN obj.v THEN obj.keys ELSE Append(obj.keys, key),
                            (key :> r.v) @@ obj.v))
         IN  prop(execIntern(o, code.v[key], scope, fnargs, path \o <<index>>, st))

execIntern(o, code, scope, fnargs, path, st) ==
    IF code.t = "arr"
    THEN LET op == at(code, 0)
             st1 == Log(st, "eval", path, 0, FALSE)
         IN  CASE IsStr(op, "fn") -> execFn(code, scope, path, st1)
               [] IsStr(op, "var") -> execVar(code, scope, st1)
               [] IsStr(op, "arg") -> execArg(code, fnargs, st1)
               [] IsStr(op, "if") ->
                    IF Len(code.v) < 3
                    THEN Throw(st1, "SyntaxError", "if needs at least 3 arguments")
                    ELSE execIf(o, code, scope, fnargs, path, st1, 1)
               [] op.t = "str" /\ op.v \in {"or", "??", "and"} ->
                    IF Len(code.v) < 2
                    THEN Throw(st1, "SyntaxError", "needs at least one argument")
                    ELSE execShort(o, op.v, code, scope, fnargs, path, st1, 1)
               [] IsStr(op, "let") ->
                    IF Len(code.v) = 3 THEN execLet2(o, code, scope, fnargs, path, st1)
                    ELSE IF Len(code.v) = 4
                        THEN execLetChain(o, code, newFrameId(st1), fnargs, path,
                                          newFrame(st1, scope, <<>>))
                    ELSE Throw(st1, "SyntaxError", "let needs 2 to 3 arguments")
               [] IsStr(op, "partial") -> execPartial(o, code, scope, fnargs, path, st1)
               [] OTHER -> execCall(o, code, scope, fnargs, path, st1)
    ELSE IF code.t = "obj"
        THEN execObject(o, code, scope, fnargs, path, Log(st, "eval", path, 0, FALSE),
                        1, EmptyObj)
    ELSE IF code.t = "undef" THEN Ret(st, Null)
    ELSE Ret(Log(st, "eval", path, 0, FALSE), code)

(***************************************************************************)
(* Calling a function value, and the built-in operations (operations.ts).  *)
(***************************************************************************)
\* the bindings nestedScope[argNames[index]] = args[index] of a named
\* closure: an argument past the declared names is stored under the key
\* argNames[index] is converted to, "undefined"
bindArgs(argNames, args) ==
    LET nameAt(i) == IF i <= Len(argNames) THEN argNames[i].v ELSE "undefined"
        last(n) == CHOOSE i \in 1..Len(args) :
                      nameAt(i) = n /\ \A j \in 1..Len(args) : nameAt(j) = n => j <= i
    IN  [n \in {nameAt(i) : i \in 1..Len(args)} |-> args[last(n)]]

\* the function (this, ...args) that case 'fn' returned, called
callClosure(o, f, this, args, st) ==
    IF st.d >= MaxCallDepth
    THEN Throw(st, "RangeError", "Maximum call stack size exceeded")
    ELSE LET st1 == [st EXCEPT !.d = @ + 1]
             returned(r) == [r EXCEPT !.st.d = st.d]
         IN  returned(IF f.named
                      THEN execIntern(o, f.body, newFrameId(st1), <<this>> \o args, f.bpath,
                                      newFrame(st1, f.scope, bindArgs(f.names, args)))
                      ELSE execIntern(o, f.body, f.scope, <<this>> \o args, f.bpath, st1))

callFn(o, f, this, args, st) ==
    IF ~IsFunction(f) THEN Throw(st, "TypeError", "is not a function")
    ELSE CASE f.k = "exec" -> callClosure(o, f, this, args, st)
           [] f.k = "builtin" ->
                IF f.name \in o.host THEN Ret(st, HostResult)
                ELSE callBuiltin(o, f.name, args, st)
           [] f.k = "partial" -> callFn(o, f.f, Undef, f.bound \o args, st)
           [] f.k = "vm" -> vmCall(o, f, this, args, st)
           [] OTHER -> Throw(st, "Unmodelled", "native function")

\* value = init; for (arg of args) value op= arg, for '+' and '*'
foldNum(name, args, index, value) ==
    IF index > Len(args) THEN value
    ELSE foldNum(name, args, index + 1,
                 IF name = "+" THEN jsAdd(value, toNumber(args[index]))
                 ELSE jsMul(value, toNumber(args[index])))

\* the loop of '<' without "a = b": every argument against the first
chainLtAgainstFirst(args, index) ==
    IF index > Len(args) THEN TRUE
    ELSE IF ~jsLt(args[1], args[index]) THEN FALSE
    ELSE chainLtAgainstFirst(args, index + 1)

\* the loop of '<': every adjacent pair in order
chainLt(args, index) ==
    IF index > Len(args) THEN TRUE
    ELSE IF ~jsLt(args[index - 1], args[index]) THEN FALSE
    ELSE chainLt(args, index + 1)

\* the loops of '>', '<=' and '>='
chainGt(args, index) ==
    IF index > Len(args) THEN TRUE
    ELSE IF ~jsGt(args[index - 1], args[index]) THEN FALSE
    ELSE chainGt(args, index + 1)

chainLte(args, index) ==
    IF index > Len(args) THEN TRUE
    ELSE IF ~jsLte(args[index - 1], args[index]) THEN FALSE
    ELSE chainLte(args, index + 1)

chainGte(args, index) ==
    IF index > Len(args) THEN TRUE
    ELSE IF ~jsGte(args[index - 1], args[index]) THEN FALSE
    ELSE chainGte(args, index + 1)

\* items.map / filter / reduce / every / some (none negates some) over
\* items[index..], with the callback's result folded into acc
arrayIter(o, kind, items, func, index, acc, st) ==
    IF index > Len(items)
    THEN Ret(st, CASE kind \in {"map", "filter"} -> Arr(acc)
                   [] kind = "reduce" -> acc
                   [] kind = "every" -> Bool(TRUE)
                   [] kind \in {"some"} -> Bool(FALSE))
    ELSE LET item == items[index]
             called(r) ==
                 IF r.err # "" THEN r
                 ELSE IF kind = "every" /\ ~isTruthy(r.v) THEN Ret(r.st, Bool(FALSE))
                 ELSE IF kind = "some" /\ isTruthy(r.v) THEN Ret(r.st, Bool(TRUE))
                 ELSE arrayIter(o, kind, items, func, index + 1,
                                CASE kind = "map" -> Append(acc, r.v)
                                  [] kind = "filter" ->
                                        IF jsNot(r.v) THEN acc ELSE Append(acc, item)
                                  [] kind = "reduce" -> r.v
                                  [] OTHER -> acc,
                                r.st)
         IN  called(callFn(o, func, Undef,
                           CASE kind \in {"map", "filter"} ->
                                    <<item, Num(index - 1), Arr(items)>>
                             [] kind = "reduce" ->
                                    <<acc, item, Num(index - 1), Arr(items)>>
                             [] OTHER -> <<item>>,
                           st))

callBuiltin(o, name, args, st) ==
    LET a(i) == IF i <= Len(args) THEN args[i] ELSE Undef
    IN  CASE name = "array" -> Ret(st, Arr(args))
          [] name = "+" -> Ret(st, foldNum("+", args, 1, Num(0)))
          [] name = "*" -> Ret(st, foldNum("*", args, 1, Num(1)))
          [] name = "-" ->
                IF Len(args) = 1 THEN Ret(st, jsSub(Num(0), toNumber(a(1))))
                ELSE Ret(st, jsSub(toNumber(a(1)), toNumber(a(2))))
          [] name = "<" ->
                IF Len(args) < 2 THEN Throw(st, "TypeError", "< needs at least 2 arguments")
                ELSE IF \E i \in 1..Len(args) : args[i].t \in {"str", "obj", "fn"}
                    THEN Throw(st, "Unmodelled", "< on strings and objects")
                ELSE Ret(st, Bool(chainLt(args, 2)))
          [] name \in {">", "<=", ">="} ->
                IF Len(args) < 2
                THEN Throw(st, "TypeError", name \o " needs at least 2 arguments")
                ELSE IF \E i \in 1..Len(args) : args[i].t \in {"str", "obj", "fn"}
                    THEN Throw(st, "Unmodelled", name \o " on strings and objects")
                ELSE Ret(st, Bool(CASE name = ">" -> chainGt(args, 2)
                                    [] name = "<=" -> chainLte(args, 2)
                                    [] OTHER -> chainGte(args, 2)))
          [] name = "!" -> Ret(st, Bool(~isTruthy(a(1))))
          [] name = "!!" -> Ret(st, Bool(isTruthy(a(1))))
          [] name = "id" -> Ret(st, a(1))
          [] name = "print" ->
                Ret(Log(st, "print", <<>>, Len(args), FALSE), OrNull(a(Len(args))))
          [] name = "isArray" -> Ret(st, Bool(a(1).t = "arr"))
          [] name = "length" ->
                IF a(1).t = "arr" THEN Ret(st, Num(Len(a(1).v)))
                ELSE IF a(1).t = "obj" THEN Ret(st, Num(Len(a(1).keys)))
                ELSE IF a(1).t = "str" THEN Throw(st, "Unmodelled", "length of a string")
                ELSE Ret(st, Num(0))
          [] name \in {"every", "some", "none"} ->
                IF a(1).t # "arr" THEN Ret(st, Bool(name # "some"))
                ELSE LET found(r) == IF r.err # "" \/ name # "none" THEN r
                                     ELSE Ret(r.st, Bool(~r.v.v))
                     IN  found(arrayIter(o, IF name = "every" THEN "every" ELSE "some",
                                         a(1).v, a(2), 1, <<>>, st))
          [] name \in {"map", "filter"} ->
                IF jsNot(a(1)) THEN Ret(st, Arr(<<>>))
                ELSE IF a(1).t # "arr" THEN Throw(st, "Unmodelled", "map over a non-array")
                ELSE IF ~IsFunction(a(2)) THEN Throw(st, "TypeError", "is not a function")
                ELSE arrayIter(o, name, a(1).v, a(2), 1, <<>>, st)
          [] name = "reduce" ->
                IF jsNot(a(1)) THEN Ret(st, OrNull(a(3)))
                ELSE IF a(1).t # "arr" THEN Throw(st, "Unmodelled", "reduce over a non-array")
                ELSE IF ~IsFunction(a(2)) THEN Throw(st, "TypeError", "is not a function")
                ELSE arrayIter(o, name, a(1).v, a(2), 1, OrNull(a(3)), st)
          [] OTHER -> Throw(st, "Unmodelled", "operation")

\* the state at the start of a call: the root scope is the input, or
\* Object.create(null) when there is none
rootFrame(inp) ==
    IF IsNullish(inp) THEN Frame(NoProto, <<>>) ELSE Frame(ObjectProto, objVars(inp))
\* the root scope as the value (arg 1) yields
rootValue(inp) == IF IsNullish(inp) THEN EmptyObj ELSE inp

NoCode == <<>>
initState(inp, code) ==
    [h |-> <<rootFrame(inp)>>, log |-> <<>>, d |-> 0,
     code |-> code, stack |-> (0 :> Null) @@ (1 :> rootValue(inp)),
     stackPtr |-> 1, instrPtr |-> 0, framePtr |-> 0, argc |-> 2, scope |-> 1]

\* execLogic(code, input, {allowTuringComplete, operations}): the outcome,
\* with the log; host holds the keys of options.operations
execLogic(code, inp, atc, host) ==
    LET outcome(r) ==
            [done |-> TRUE, err |-> r.err, msg |-> r.msg, v |-> r.v, log |-> r.st.log,
             root |-> r.st.h[1].vars]
    IN  IF \E name \in host : ~isValidName(name)
        THEN outcome(Throw(initState(inp, NoCode), "Error", "not a valid operation name"))
        ELSE outcome(execIntern(Options(atc, host), code, 1, <<Null, rootValue(inp)>>, <<>>,
                                initState(inp, NoCode)))

(***************************************************************************)
(* compileLogic (bytecode.ts).  The instruction stream is an array of      *)
(* JavaScript values in which an instruction is its enum number, so an     *)
(* operand and an instruction can be told apart only by position.          *)
(***************************************************************************)
Push == 0
Pop == 1
ToNumber == 2
InstrToString == 3
ToBool == 4
Add == 5
NumNegate == 6
Sub == 7
Mul == 8
Div == 9
Mod == 10
BitAnd == 11
BitOr == 12
XOr == 13
BitNegate == 14
ShiftLeft == 15
ShiftRight == 16
BoolNegate == 17
Lt == 18
Gt == 19
Lte == 20
Gte == 21
Eq == 22
Neq == 23
SetVar == 24
GetVar == 25
GetArg == 26
GetItem == 27
Jmp == 28
JmpIfTrue == 29
JmpIfFalse == 30
JmpIfNull == 31
JmpIfNotNull == 32
AssertNotFunction == 33
DeriveScope == 34
NewScope == 35
PopScope == 36
Closure == 37
Partial == 38
Call == 39
Return == 40
NewArray == 41
ArrayPush == 42
NewObject == 43
SetProp == 44

\* the compiler's state: the code emitted so far, the functions whose bodies
\* are still to be emitted, and the error thrown, if any
\* code and fns as compileLogic declares them; writes lists the words that
\* code[ref] = location replaced, starts the offsets at which the bodies of
\* fns begin
compileStart ==
    [code |-> <<>>, fns |-> <<>>, err |-> "", msg |-> "", writes |-> <<>>, starts |-> <<>>]
compileThrow(c, kind, msg) == [c EXCEPT !.err = kind, !.msg = msg]
\* code.push(...words)
emit(c, words) == [c EXCEPT !.code = @ \o words]
\* code[ref] = value
patch(c, ref, value) ==
    [c EXCEPT !.code[ref + 1] = value, !.writes = Append(@, c.code[ref + 1])]
patchAll(c, refs, value) ==
    IF refs = <<>> THEN c ELSE patchAll(patch(c, Head(refs), value), Tail(refs), value)

\* for (const ref of refs) code[ref] = location: the placeholders are patched
patchOf(c, refs) == patchAll(c, refs, Num(Len(c.code)))

\* for (const ref in refs) code[ref] = location: ref runs over the indices
\* 0..refs.length-1 of refs, not over its elements
patchIn(c, refs) == patchAll(c, [i \in 1..Len(refs) |-> i - 1], Num(Len(c.code)))

\* the arity check of 'if', 'and', 'or', '??' and 'partial' reads the length of
\* the code emitted so far where the evaluator reads the length of the node
arityCheck(c, logic, min) == Len(c.code) < min

\* compileIntern(logic[index]); code.push(instr) for index.. of '+' and '*'
compileFold(o, logic, c, index, instr) ==
    IF c.err # "" \/ index >= Len(logic.v) THEN c
    ELSE compileFold(o, logic,
                     emit(compileIntern(o, at(logic, index), c), <<Num(instr)>>),
                     index + 1, instr)

\* compileIntern(a); compileIntern(b); code.push(instr)
compileBinary(o, logic, c, instr) ==
    IF Len(logic.v) # 3 THEN compileThrow(c, "SyntaxError", "requires exactly 2 arguments")
    ELSE LET right(c2) == IF c2.err # "" THEN c2 ELSE emit(c2, <<Num(instr)>>)
             left(c1) == right(IF c1.err # "" THEN c1 ELSE compileIntern(o, logic.v[3], c1))
         IN  left(compileIntern(o, logic.v[2], c))

compileUnary(o, logic, c, instr) ==
    IF Len(logic.v) # 2 THEN compileThrow(c, "SyntaxError", "requires exactly 1 argument")
    ELSE LET operand(c1) == IF c1.err # "" THEN c1 ELSE emit(c1, <<Num(instr)>>)
         IN  operand(compileIntern(o, logic.v[2], c))

\* the for loop of case 'if', entered with index at a condition; refs are the
\* operands of the Jmp instructions that end the true branches
compileIf(o, logic, c, index, refs) ==
    IF index >= Len(logic.v) - 1 THEN patchIn(c, refs)
    ELSE LET final(c6, refs1) == IF c6.err # "" THEN c6 ELSE patchIn(c6, refs1)
             otherwise(c5, refs1) ==
                 IF index + 3 >= Len(logic.v)
                 THEN final(IF index + 2 >= Len(logic.v)
                            THEN emit(c5, <<Num(Push), Null>>)
                            ELSE compileIntern(o, at(logic, index + 2), c5),
                            refs1)
                 ELSE compileIf(o, logic, c5, index + 2, refs1)
             jumped(c4, ref) ==
                 otherwise(emit(patch(c4, ref, Num(Len(c4.code))), <<Num(Pop)>>),
                           Append(refs, Len(c4.code) - 1))
             branch(c3, ref) ==
                 IF c3.err # "" THEN c3 ELSE jumped(emit(c3, <<Num(Jmp), Num(-1)>>), ref)
             tested(c2) ==
                 branch(compileIntern(o, at(logic, index + 1), c2), Len(c2.code) - 1)
             cond(c1) ==
                 IF c1.err # "" THEN c1 ELSE tested(emit(c1, <<Num(JmpIfFalse), Num(-1)>>))
         IN  cond(compileIntern(o, at(logic, index), c))

\* the loop of case 'and', 'or', '??' with its jump instruction, then the last
\* operand
compileShort(o, logic, c, index, jmp, refs) ==
    IF index >= Len(logic.v) - 1
    THEN LET final(c1) == IF c1.err # "" THEN c1 ELSE patchOf(c1, refs)
         IN  final(compileIntern(o, logic.v[Len(logic.v)], c))
    ELSE LET jumped(c2) ==
                 compileShort(o, logic, c2, index + 1, jmp, Append(refs, Len(c2.code) - 1))
             operand(c1) ==
                 IF c1.err # "" THEN c1 ELSE jumped(emit(c1, <<Num(jmp), Num(-1)>>))
         IN  operand(compileIntern(o, at(logic, index), c))

\* the keys of 'var' and 'arg' from logic[index] on
compilePath(logic, c, index, refs) ==
    IF index >= Len(logic.v) - 1
    THEN patchOf(emit(c, <<Num(Push), logic.v[Len(logic.v)], Num(GetItem)>>), refs)
    ELSE LET c1 == emit(c, <<Num(Push), at(logic, index), Num(GetItem),
                             Num(JmpIfNull), Num(-1)>>)
         IN  compilePath(logic, c1, index + 1, Append(refs, Len(c1.code) - 1))

\* case 'var' and case 'arg'
compileRef(logic, c, get) ==
    LET arg1 == at(logic, 1)
        badKey == \E i \in 3..Len(logic.v) : logic.v[i].t \notin {"num", "str"}
        c1 == emit(c, <<Num(get), arg1>>)
    IN  IF Len(logic.v) < 2 THEN compileThrow(c, "SyntaxError", "needs at least one argument")
        ELSE IF get = GetVar /\ ~(arg1.t = "str" /\ isValidName(arg1.v))
            THEN compileThrow(c, "TypeError", "first argument of var needs to be a name")
        ELSE IF get = GetArg /\ ~(arg1.t = "num" /\ arg1.v >= 0)
            THEN compileThrow(c, "TypeError", "first argument of arg needs to be a positive integer")
        ELSE IF badKey THEN compileThrow(c, "TypeError", "illegal keys")
        ELSE IF Len(logic.v) > 2 THEN compilePath(logic, c1, 2, <<>>)
        ELSE c1

\* the for (;;) of case 'let' with 3 arguments
compileLetChain(o, letInstr, c) ==
    LET varName == letInstr.v[2]
        childInstr == letInstr.v[4]
        body(c3) == IF c3.err # "" THEN c3 ELSE emit(c3, <<Num(PopScope)>>)
        child(c2) ==
            IF childInstr.t = "arr" /\ Len(childInstr.v) = 4 /\ IsStr(childInstr.v[1], "let")
            THEN compileLetChain(o, childInstr, c2)
            ELSE body(compileIntern(o, childInstr, c2))
        bind(c1) == IF c1.err # "" THEN c1 ELSE child(emit(c1, <<Num(SetVar), varName>>))
    IN  IF ~(varName.t = "str" /\ isValidName(varName.v))
        THEN compileThrow(c, "SyntaxError", "1st argument to 3 argument let needs to be a string")
        ELSE bind(compileIntern(o, letInstr.v[3], c))

\* whether AssertNotFunction follows the argument at argind: mode is "call"
\* for a registry operation, "partial" for partial of a name (the annotation
\* looked up is that of op, the tag 'partial'), "expr" for partial of an
\* expression
assertsNotFunction(o, mode, op, argind) ==
    CASE mode = "call" -> ~o.atc /\ ~safeFnargsAt(o, op, argind)
      [] mode = "partial" -> ~o.atc /\ ~safeFnargsAt(o, "partial", argind)
      [] OTHER -> ~o.atc

\* the argument loops of case 'partial' and of the default case
compileArgs(o, logic, c, index, mode) ==
    IF c.err # "" \/ index >= Len(logic.v) THEN c
    ELSE LET argind == IF mode = "call" THEN index - 1 ELSE index - 2
             arg(c1) ==
                 IF c1.err # "" THEN c1
                 ELSE compileArgs(o, logic,
                                  IF assertsNotFunction(o, mode, logic.v[1].v, argind)
                                  THEN emit(c1, <<Num(AssertNotFunction)>>)
                                  ELSE c1,
                                  index + 1, mode)
         IN  arg(compileIntern(o, at(logic, index), c))

\* case 'partial'
compilePartial(o, logic, c) ==
    LET arg1 == at(logic, 1)
        argc == Len(logic.v) - 2
        bound(c1) == IF c1.err # "" THEN c1 ELSE emit(c1, <<Num(Partial), Num(argc)>>)
    IN  IF arityCheck(c, logic, 2)
        THEN compileThrow(c, "SyntaxError", "partial needs at least one argument")
        ELSE IF arg1.t = "arr"
            THEN IF ~o.atc
                 THEN compileThrow(c, "TypeError", "illegal instruction when allowTuringComplete=false")
                 ELSE bound(compileArgs(o, logic, compileIntern(o, arg1, c), 2, "expr"))
        ELSE IF arg1.t # "str"
            THEN compileThrow(c, "SyntaxError", "illegal first argument to partial")
        ELSE IF inOperations(o, arg1)
            THEN bound(compileArgs(o, logic, emit(c, <<Num(Push), arg1>>), 2, "partial"))
        ELSE compileThrow(c, "ReferenceError", "function is not defined")

\* the default case
compileCall(o, logic, c) ==
    LET op == at(logic, 0)
        argc == Len(logic.v) - 1
        call(c1, words) == IF c1.err # "" THEN c1 ELSE emit(c1, words)
    IN  IF IsFunction(op)
        THEN IF ~o.atc
             THEN compileThrow(c, "TypeError", "illegal instruction when allowTuringComplete=false")
             ELSE call(compileArgs(o, logic, c, 1, "expr"),
                       <<Num(Push), op, Num(Call), Num(argc)>>)
        ELSE IF op.t = "arr"
            THEN IF ~o.atc
                 THEN compileThrow(c, "TypeError", "illegal instruction when allowTuringComplete=false")
                 ELSE call(compileIntern(o, op, c), <<Num(Call), Num(argc)>>)
        ELSE IF inOperations(o, op)
            THEN call(compileArgs(o, logic, c, 1, "call"),
                      <<Num(Push), op, Num(Call), Num(argc)>>)
        ELSE compileThrow(c, "ReferenceError", "function is not defined")

\* the for (key in logic) of an object literal
compileObject(o, logic, c, index) ==
    IF c.err # "" \/ index > Len(logic.keys) THEN c
    ELSE LET key == logic.keys[index]
             prop(c1) ==
                 IF c1.err # "" THEN c1
                 ELSE compileObject(o, logic, emit(c1, <<Num(SetProp)>>), index + 1)
         IN  prop(compileIntern(o, logic.v[key], emit(c, <<Num(Push), Str(key)>>)))

compileIntern(o, logic, c) ==
    IF c.err # "" THEN c
    ELSE IF logic.t = "arr"
    THEN LET op == at(logic, 0)
             len == Len(logic.v)
             tag == IF op.t = "str" THEN op.v ELSE ""
         IN  CASE tag = "+" /\ op.t = "str" ->
                    IF len = 2
                    THEN LET operand(c1) ==
                                 IF c1.err # "" THEN c1 ELSE emit(c1, <<Num(ToNumber)>>)
                         IN  operand(compileIntern(o, logic.v[2], c))
                    ELSE IF len > 2
                        THEN compileFold(o, logic, compileIntern(o, logic.v[2], c), 2, Add)
                    ELSE c
               [] tag = "-" ->
                    IF len = 2 THEN compileUnary(o, logic, c, NumNegate)
                    ELSE IF len = 3 THEN compileBinary(o, logic, c, Sub)
                    ELSE compileThrow(c, "SyntaxError", "operation - may only have 1 or 2 arguments")
               [] tag = "*" ->
                    IF len = 1 THEN emit(c, <<Num(Push), Num(1)>>)
                    ELSE compileFold(o, logic, compileIntern(o, logic.v[2], c), 2, Mul)
               [] tag = "/" -> compileBinary(o, logic, c, Div)
               [] tag = "%" -> compileBinary(o, logic, c, Mod)
               [] tag = "~" -> compileUnary(o, logic, c, BitNegate)
               [] tag = "^" -> compileBinary(o, logic, c, XOr)
               [] tag = "|" -> compileBinary(o, logic, c, BitOr)
               [] tag = "&" -> compileBinary(o, logic, c, BitAnd)
               [] tag = "!" -> compileUnary(o, logic, c, BoolNegate)
               [] tag = "!!" -> compileUnary(o, logic, c, ToBool)
               [] tag = "if" ->
                    IF arityCheck(c, logic, 3)
                    THEN compileThrow(c, "SyntaxError", "if needs at least 3 arguments")
                    ELSE compileIf(o, logic, c, 1, <<>>)
               [] tag \in {"and", "or", "??"} ->
                    IF arityCheck(c, logic, 2)
                    THEN compileThrow(c, "SyntaxError", "needs at least one argument")
                    ELSE compileShort(o, logic, c, 1,
                            CASE tag = "and" -> JmpIfFalse
                              [] tag = "or" -> JmpIfTrue
                              [] tag = "??" -> JmpIfNotNull,
                            <<>>)
               [] tag = "var" -> compileRef(logic, c, GetVar)
               [] tag = "arg" -> compileRef(logic, c, GetArg)
               [] tag = "let" ->
                    IF len = 3
                    THEN LET body(c2) ==
                                 IF c2.err # "" THEN c2 ELSE emit(c2, <<Num(PopScope)>>)
                             scoped(c1) ==
                                 IF c1.err # "" THEN c1
                                 ELSE body(compileIntern(o, logic.v[3], c1))
                         IN  scoped(emit(compileIntern(o, logic.v[2], c), <<Num(NewScope)>>))
                    ELSE IF len = 4
                        THEN compileLetChain(o, logic, emit(c, <<Num(DeriveScope)>>))
                    ELSE compileThrow(c, "SyntaxError", "let needs 2 to 3 arguments")
               [] tag = "fn" ->
                    LET c1 == emit(c, <<Num(Closure), Num(-1)>>)
                    IN  [c1 EXCEPT !.fns = Append(@,
                            [refs |-> <<Len(c1.code) - 1>>,
                             body |-> IF len > 1 THEN logic.v[len] ELSE Null])]
               [] tag = "partial" -> compilePartial(o, logic, c)
               [] OTHER -> compileCall(o, logic, c)
    ELSE IF logic.t = "obj"
        THEN compileObject(o, logic, emit(c, <<Num(NewObject)>>), 1)
    ELSE emit(c, <<Num(Push), OrNull(logic)>>)

\* the loop over fns after the main program: fns grows while bodies compile
compileFns(o, c, index) ==
    IF c.err # "" \/ index > Len(c.fns) THEN c
    ELSE LET fn == c.fns[index]
             body(c1) ==
                 IF c1.err # "" THEN c1
                 ELSE compileFns(o, emit(c1, <<Num(Return)>>), index + 1)
         IN  body(compileIntern(o, fn.body,
                                patchOf([c EXCEPT !.starts = Append(@, Len(c.code))],
                                        fn.refs)))

\* compileLogic(logic, {allowTuringComplete, operations}): the code, or the
\* error thrown
compileLogic(code, atc, host) ==
    LET o == Options(atc, host)
        outcome(r) ==
            [done |-> TRUE, err |-> r.err, msg |-> r.msg,
             code |-> IF r.err # "" THEN <<>> ELSE r.code,
             writes |-> r.writes, starts |-> r.starts,
             refs |-> [i \in 1..Len(r.fns) |-> r.fns[i].refs]]
        main(c) ==
            outcome(IF c.err # "" THEN c ELSE compileFns(o, emit(c, <<Num(Return)>>), 1))
    IN  IF \E name \in host : ~isValidName(name)
        THEN outcome(compileThrow(compileStart, "Error", "not a valid operation name"))
        ELSE main(compileIntern(o, code, compileStart))

(***************************************************************************)
(* execByteCode (bytecode.ts): the stack machine.  stack and code are      *)
(* JavaScript arrays: a read outside them is undefined, a write extends    *)
(* them, and slots above stackPtr keep what was last written there.        *)
(***************************************************************************)
codeAt(st, i) == IF i >= 0 /\ i < Len(st.code) THEN st.code[i + 1] ELSE Undef
stackAt(st, i) == IF i \in DOMAIN st.stack THEN st.stack[i] ELSE Undef
setStack(st, i, value) == [st EXCEPT !.stack = (i :> value) @@ @]
\* stack[++ stackPtr] = value
push(st, value) == [setStack(st, st.stackPtr + 1, value) EXCEPT !.stackPtr = @ + 1]
\* stack.slice(from, to)
stackSlice(st, from, to) == [i \in 1..(to - from) |-> stackAt(st, from + i - 1)]
\* a scope object held in a stack slot
ScopeRef(id) == [t |-> "scope", id |-> id]
\* the function the Closure instruction pushes
VmClosure(jmpPtr) == [t |-> "fn", k |-> "vm", jmp |-> jmpPtr]

Go(st) == [halt |-> FALSE, r |-> Ret(st, Undef)]
Stop(r) == [halt |-> TRUE, r |-> r]

\* stack[stackPtr] = f(stack[stackPtr])
vmUnary(st, value) == Go(setStack(st, st.stackPtr, value))
\* value = stack[stackPtr --]; stack[stackPtr] = f(stack[stackPtr], value)
vmBinary(st, value) ==
    Go(setStack([st EXCEPT !.stackPtr = @ - 1], st.stackPtr - 1, value))

\* a conditional jump: the value is popped only when the jump is not taken
vmJmpIf(st, taken) ==
    LET target == codeAt(st, st.instrPtr)
    IN  IF taken
        THEN IF target.t # "num"
             THEN Stop(Throw(st, "ReferenceError", "illegal instruction"))
             ELSE Go([st EXCEPT !.instrPtr = target.v])
        ELSE Go([st EXCEPT !.instrPtr = @ + 1, !.stackPtr = @ - 1])

\* the function pushed by Instruction.Closure, called: it saves the
\* registers, makes the frame, runs the dispatch loop and pops the result.
\* The log keeps argc, instrPtr, framePtr and stackPtr as they are on entry
\* and as they are when the function returns.
vmCall(o, f, this, args, st) ==
    IF st.d >= MaxCallDepth
    THEN Throw(st, "RangeError", "Maximum call stack size exceeded")
    ELSE IF f.jmp.t # "num" THEN Throw(st, "ReferenceError", "illegal instruction")
    ELSE LET registers(s) == <<s.argc, s.instrPtr, s.framePtr, s.stackPtr>>
             s0 == Log(st, "invoke", registers(st), st.d, FALSE)
             s1 == push(push(push(s0, Num(st.argc)), Num(st.instrPtr)), Num(st.framePtr))
             s2 == [s1 EXCEPT !.framePtr = s1.stackPtr + 1, !.instrPtr = f.jmp.v,
                              !.argc = Len(args) + 1, !.d = @ + 1]
             s3 == push(s2, this)
             s4 == [s3 EXCEPT
                      !.stack = [i \in (s3.stackPtr + 1)..(s3.stackPtr + Len(args)) |->
                                    args[i - s3.stackPtr]] @@ @,
                      !.stackPtr = @ + Len(args)]
             returned(r) ==
                 IF r.err # "" THEN r
                 ELSE Ret(Log([r.st EXCEPT !.stackPtr = @ - 1, !.d = st.d], "return",
                              registers([r.st EXCEPT !.stackPtr = @ - 1]), st.d, FALSE),
                          stackAt(r.st, r.st.stackPtr))
         IN  returned(vmExecIntern(o, s4))

\* Instruction.Call
vmCallInstr(o, st) ==
    LET op == stackAt(st, st.stackPtr)
        argc == codeAt(st, st.instrPtr)
        s1 == [st EXCEPT !.instrPtr = @ + 1]
        args == stackSlice(st, st.stackPtr - argc.v, st.stackPtr)
        called(r) ==
            IF r.err # "" THEN Stop(r)
            ELSE Go(setStack([r.st EXCEPT !.stackPtr = @ - argc.v],
                             r.st.stackPtr - argc.v, r.v))
    IN  IF argc.t # "num" \/ argc.v < 0
        THEN Stop(Throw(st, "Unmodelled", "Call without a count"))
        ELSE IF ~IsFunction(op) /\ ~inOperations(o, op)
            THEN Stop(Throw(s1, "ReferenceError", "function is not defined"))
        ELSE called(callFn(o, IF IsFunction(op) THEN op ELSE Builtin(op.v),
                           Undef, args, s1))

\* Instruction.Return
vmReturn(st) ==
    LET result == stackAt(st, st.stackPtr)
        sp == st.stackPtr - (st.argc + 3)
        argc == stackAt(st, st.framePtr - 3)
        instrPtr == stackAt(st, st.framePtr - 2)
        framePtr == stackAt(st, st.framePtr - 1)
    IN  IF sp >= 0
        THEN IF argc.t # "num" \/ instrPtr.t # "num" \/ framePtr.t # "num"
             THEN Throw(st, "Unmodelled", "Return into a frame that holds no registers")
             ELSE Ret(setStack([st EXCEPT !.stackPtr = sp, !.argc = argc.v,
                                           !.instrPtr = instrPtr.v,
                                           !.framePtr = framePtr.v],
                               sp, result),
                      result)
        ELSE Ret([st EXCEPT !.stackPtr = sp], result)

\* Instruction.Partial
vmPartial(o, st) ==
    LET argc == codeAt(st, st.instrPtr)
        sp == st.stackPtr - argc.v
        s1 == [st EXCEPT !.instrPtr = @ + 1, !.stackPtr = sp]
        op == stackAt(st, sp)
        func == IF IsFunction(op) THEN op ELSE Builtin(op.v)
        boundArgs == stackSlice(st, sp, sp + argc.v)
    IN  IF argc.t # "num" \/ argc.v < 0
        THEN Stop(Throw(st, "Unmodelled", "Partial without a count"))
        ELSE IF ~IsFunction(op) /\ op.t # "str"
            THEN Stop(Throw(s1, "SyntaxError", "illegal first argument to partial"))
        ELSE IF ~IsFunction(op) /\ ~inOperations(o, op)
            THEN Stop(Throw(s1, "ReferenceError", "function is not defined"))
        ELSE IF argc.v > 0 THEN Go(setStack(s1, sp, PartialFn(func, boundArgs)))
        ELSE Go(setStack(s1, sp, func))

\* one turn of the for (;;) of execIntern: the instruction at instrPtr
vmStep(o, st0) ==
    LET op == codeAt(st0, st0.instrPtr)
        st == [st0 EXCEPT !.instrPtr = @ + 1]
        operand == codeAt(st, st.instrPtr)
        skip == [st EXCEPT !.instrPtr = @ + 1]
        top == stackAt(st, st.stackPtr)
        below == stackAt(st, st.stackPtr - 1)
        instr == IF op.t = "num" THEN op.v ELSE -1
    IN  CASE instr = Push -> Go(push(skip, operand))
          [] instr = Pop -> Go([st EXCEPT !.stackPtr = @ - 1])
          [] instr = ToNumber -> vmUnary(st, toNumber(top))
          [] instr = ToBool -> vmUnary(st, Bool(isTruthy(top)))
          [] instr = Add -> vmBinary(st, jsAdd(toNumber(below), toNumber(top)))
          [] instr = NumNegate -> vmUnary(st, jsSub(Num(0), toNumber(top)))
          [] instr = Sub -> vmBinary(st, jsSub(toNumber(below), toNumber(top)))
          [] instr = Mul -> vmBinary(st, jsMul(toNumber(below), toNumber(top)))
          [] instr = BoolNegate -> vmUnary(st, Bool(~isTruthy(top)))
          [] instr \in {InstrToString, Div, Mod, BitAnd, BitOr, XOr, BitNegate, ShiftLeft,
                        ShiftRight, Lt, Gt, Lte, Gte, Eq, Neq, NewArray, ArrayPush} ->
                Stop(Throw(st, "Unmodelled", "instruction"))
          [] instr = SetVar ->
                IF operand.t # "str" \/ st.scope = ObjectProto
                THEN Stop(Throw(st, "Unmodelled", "SetVar without a name or a scope object"))
                ELSE Go([setVar(skip, st.scope, operand.v, top) EXCEPT !.stackPtr = @ - 1])
          [] instr = GetVar ->
                Go(push(skip, IF operand.t = "str"
                              THEN lookupVar(st.h, st.scope, operand.v)
                              ELSE Undef))
          [] instr = GetArg ->
                IF operand.t # "num" THEN Stop(Throw(st, "Unmodelled", "GetArg without an index"))
                ELSE Go(push(skip, IF operand.v > st.argc THEN Null
                                   ELSE stackAt(st, st.framePtr + operand.v)))
          [] instr = GetItem ->
                LET own == hasOwn(top, operand)
                IN  IF own = "throw"
                    THEN Stop(Throw(skip, "TypeError",
                                    "Cannot convert undefined or null to object"))
                    ELSE vmUnary(skip, IF own = "yes" THEN getOwn(top, operand) ELSE Null)
          [] instr = Jmp ->
                IF operand.t # "num"
                THEN Stop(Throw(st, "ReferenceError", "illegal instruction"))
                ELSE Go([st EXCEPT !.instrPtr = operand.v])
          [] instr = JmpIfTrue -> vmJmpIf(st, isTruthy(top))
          [] instr = JmpIfFalse -> vmJmpIf(st, ~isTruthy(top))
          [] instr = JmpIfNull -> vmJmpIf(st, IsNullish(top))
          [] instr = JmpIfNotNull -> vmJmpIf(st, ~IsNullish(top))
          [] instr = AssertNotFunction ->
                IF IsFunction(top)
                THEN Stop(Throw(st, "TypeError", "found function where there cannot be one"))
                ELSE Go(st)
          [] instr = DeriveScope ->
                IF st.scope = ObjectProto
                THEN Stop(Throw(st, "Unmodelled", "DeriveScope without a scope object"))
                ELSE Go([push(newFrame(st, st.scope, <<>>), ScopeRef(st.scope))
                            EXCEPT !.scope = newFrameId(st)])
          [] instr = NewScope ->
                IF jsNot(top) \/ top.t \notin {"obj", "arr"}
                THEN Stop(Throw([st EXCEPT !.stackPtr = @ - 1], "TypeError",
                          "1st argument to 2 argument let needs to be an object"))
                ELSE Go([setStack(newFrame(st, NoProto, objVars(top)), st.stackPtr,
                                  ScopeRef(st.scope))
                            EXCEPT !.scope = newFrameId(st)])
          [] instr = PopScope ->
                \* scope = stack[stackPtr] takes whatever the slot holds: a
                \* boolean, number or string there leaves a scope whose reads
                \* find the inherited members only
                IF below.t \in {"bool", "num", "str"}
                THEN Go([setStack(st, st.stackPtr - 1, top)
                            EXCEPT !.stackPtr = @ - 1, !.scope = ObjectProto])
                ELSE IF below.t # "scope"
                THEN Stop(Throw(st, "Unmodelled", "PopScope over a slot that holds no scope"))
                ELSE Go([setStack(st, st.stackPtr - 1, top)
                            EXCEPT !.stackPtr = @ - 1, !.scope = below.id])
          [] instr = Closure -> Go(push(skip, VmClosure(operand)))
          [] instr = Partial -> vmPartial(o, st)
          [] instr = Call -> vmCallInstr(o, st)
          [] instr = Return -> Stop(vmReturn(st))
          [] instr = NewObject -> Go(push(st, EmptyObj))
          [] instr = SetProp ->
                LET obj == stackAt(st, st.stackPtr - 2)
                IN  IF obj.t # "obj" \/ below.t # "str"
                    THEN Stop(Throw(st, "Unmodelled", "SetProp on a slot that holds no object"))
                    ELSE Go(setStack([st EXCEPT !.stackPtr = @ - 2], st.stackPtr - 2,
                            Obj(IF below.v \in DOMAIN obj.v THEN obj.keys
                                ELSE Append(obj.keys, below.v),
                                (below.v :> top) @@ obj.v)))
          [] OTHER -> Stop(Throw(st, "ReferenceError", "illegal instruction"))

\* the dispatch loop, left by Return or by an exception
vmExecIntern(o, st) ==
    LET turn(s) == IF s.halt THEN s.r ELSE vmExecIntern(o, s.r.st)
    IN  turn(vmStep(o, st))

\* execByteCode({code, operations}, input): the outcome
execByteCode(code, host, inp) ==
    LET outcome(r) ==
            [done |-> TRUE, err |-> r.err, msg |-> r.msg, v |-> r.v,
             stackPtr |-> r.st.stackPtr, log |-> r.st.log, root |-> r.st.h[1].vars]
    IN  outcome(vmExecIntern(Options(TRUE, host), initState(inp, code)))

(***************************************************************************)
(* parseLogic (parser.ts).  A source text is a sequence of one-character   *)
(* strings.  The single regular expression is applied with the g flag: a   *)
(* match starts at the first position at or after lastIndex where one of   *)
(* its alternatives matches, and the first alternative that matches there  *)
(* wins.  The model carries whitespace, integer numbers, identifiers,      *)
(* operations, $N and the brackets; no modelled text holds a comment, a    *)
(* string, a fraction, an exponent or Infinity.                            *)
(***************************************************************************)
Digits == {"0", "1", "2", "3", "4", "5", "6", "7", "8", "9"}
Letters ==
    {"a", "b", "d", "e", "f", "g", "i", "l", "n", "o", "p", "r", "s", "t", "u", "v",
     "x", "y", "N"}
WordChars == Letters \cup Digits \cup {"_"}
OpChars == {"-", "+", "<", ">", "=", "!", "?", "*", "/", "%", "|", "&", "~", "^"}
Specials == {"(", ")", "{", "}", ":", "[", "]"}
Spaces == {" ", "\n"}

digitValue(ch) ==
    CASE ch = "0" -> 0 [] ch = "1" -> 1 [] ch = "2" -> 2 [] ch = "3" -> 3
      [] ch = "4" -> 4 [] ch = "5" -> 5 [] ch = "6" -> 6 [] ch = "7" -> 7
      [] ch = "8" -> 8 [] ch = "9" -> 9

\* the index after the longest run of characters of S that starts at p
runEnd(code, p, S) ==
    CHOOSE q \in p..(Len(code) + 1) :
        /\ \A k \in p..(q - 1) : code[k] \in S
        /\ q = Len(code) + 1 \/ code[q] \notin S

RECURSIVE decimal(_, _, _, _)
\* the number the digits code[p..q-1] spell, after the digits that gave acc
decimal(code, p, q, acc) ==
    IF p >= q THEN acc ELSE decimal(code, p + 1, q, acc * 10 + digitValue(code[p]))

RECURSIVE joined(_, _, _)
\* the string code[p..q-1]
joined(code, p, q) == IF p >= q THEN "" ELSE code[p] \o joined(code, p + 1, q)

RECURSIVE lineEnd(_, _)
\* the index after the comment that starts at p: after the next newline, or
\* after the end of the text
lineEnd(code, p) ==
    IF p > Len(code) THEN p
    ELSE IF code[p] = "\n" THEN p + 1
    ELSE lineEnd(code, p + 1)

RECURSIVE quoteEnd(_, _)
\* the index of the first quote or backslash at or after p, or Len(code) + 1
\* (the texts hold no escape sequences)
quoteEnd(code, p) ==
    IF p > Len(code) THEN p
    ELSE IF code[p] \in {"\"", "\\"} THEN p
    ELSE quoteEnd(code, p + 1)

NoMatch == [group |-> 0]
\* the alternatives of the regular expression tried at position p (1-based),
\* in their order; group is the number of the capture group that is set
matchAt(code, p) ==
    LET ch == code[p]
        signed == ch \in {"-", "+"}
        d == IF signed THEN p + 1 ELSE p
        dEnd == runEnd(code, d, Digits)
        wEnd == runEnd(code, p, WordChars)
        nEnd == runEnd(code, p + 1, Digits)
        sEnd == quoteEnd(code, p + 1)
    IN  IF ch \in Spaces
        THEN [group |-> 1, from |-> p, to |-> runEnd(code, p, Spaces)]
        ELSE IF ch = ";"
        THEN [group |-> 2, from |-> p, to |-> lineEnd(code, p + 1)]
        ELSE IF ch = "\"" /\ sEnd <= Len(code) /\ code[sEnd] = "\""
        THEN [group |-> 3, from |-> p, to |-> sEnd + 1, v |-> joined(code, p + 1, sEnd)]
        ELSE IF dEnd > d
        THEN [group |-> 4, from |-> p, to |-> dEnd,
              v |-> IF ch = "-" THEN 0 - decimal(code, d, dEnd, 0)
                    ELSE decimal(code, d, dEnd, 0)]
        ELSE IF ch \in Letters /\ (p = 1 \/ code[p - 1] \notin WordChars)
        THEN [group |-> 5, from |-> p, to |-> wEnd, v |-> joined(code, p, wEnd)]
        ELSE IF ch \in OpChars
        THEN [group |-> 7, from |-> p, to |-> runEnd(code, p, OpChars),
              v |-> joined(code, p, runEnd(code, p, OpChars))]
        ELSE IF /\ ch = "$"
                /\ nEnd > p + 1
                /\ (nEnd = Len(code) + 1 \/ code[nEnd] \notin WordChars)
        THEN [group |-> 8, from |-> p, to |-> nEnd, v |-> decimal(code, p + 1, nEnd, 0)]
        ELSE IF ch \in Specials
        THEN [group |-> 9, from |-> p, to |-> p + 1, v |-> ch]
        ELSE NoMatch

RECURSIVE regexExec(_, _)
\* regex.exec(code) with regex.lastIndex = p - 1: the leftmost match at or
\* after p, or NoMatch
regexExec(code, p) ==
    IF p > Len(code) THEN NoMatch
    ELSE LET m == matchAt(code, p)
         IN  IF m.group # 0 THEN m ELSE regexExec(code, p + 1)

\* the entries of the parser's stack
ValState(value) == [k |-> "val", v |-> value]
ListState(kind, items) == [k |-> kind, a |-> items]
ObjState(kind, obj, key) == [k |-> kind, o |-> obj, key |-> key]

Parsed(stack) == [stack |-> stack, err |-> "", msg |-> ""]
SyntaxError(msg) == [stack |-> <<>>, err |-> "SyntaxError", msg |-> msg]

\* String(value) for the values an object key is made of
jsString(value) ==
    CASE value.t = "str" -> value.v
      [] value.t = "num" -> ToString(value.v)
      [] value.t = "bool" -> IF value.v THEN "true" ELSE "false"
      [] value.t = "null" -> "null"
      [] value.t = "nan" -> "NaN"

\* obj[key] = value
setProp(obj, key, value) ==
    Obj(IF key \in DOMAIN obj.v THEN obj.keys ELSE Append(obj.keys, key),
        (key :> value) @@ obj.v)

pushVal(stack, value) ==
    LET n == Len(stack)
        top == stack[n]
    IN  IF n = 0 THEN Parsed(<<ValState(value)>>)
        ELSE CASE top.k \in {"]", ")"} ->
                    Parsed([stack EXCEPT ![n].a = Append(@, value)])
               [] top.k = "}" ->
                    IF value.t \in {"arr", "obj"} THEN SyntaxError("Unexpected object")
                    ELSE Parsed([stack EXCEPT ![n] = ObjState(":", top.o, jsString(value))])
               [] top.k = ":val" ->
                    Parsed([stack EXCEPT
                              ![n] = ObjState("}", setProp(top.o, top.key, value), "")])
               [] top.k = "fn" ->
                    IF Len(top.a) > 0 /\ top.a[Len(top.a)].kind # "id"
                    THEN SyntaxError("Unexpected token")
                    ELSE Parsed([stack EXCEPT
                                   ![n].a = Append(@, [kind |-> "val", v |-> value])])
               [] OTHER -> SyntaxError("Illegal parse state")

popState(stack) == SubSeq(stack, 1, Len(stack) - 1)

\* an identifier that is none of Infinity, NaN, null, true, false
parseIdent(stack0, ident) ==
    LET first == IF Len(stack0) = 0
                 THEN pushVal(stack0, Arr(<<Str("var"), Str(ident)>>))
                 ELSE Parsed(stack0)
        stack == first.stack
        n == Len(stack)
        top == stack[n]
        args == top.a
        add(x) == Parsed([stack EXCEPT ![n].a = Append(@, x)])
    IN  CASE top.k = ")" ->
                IF Len(args) = 0 /\ ident = "fn"
                THEN Parsed([stack EXCEPT ![n] = ListState("fn", <<>>)])
                ELSE IF /\ Len(args) > 0
                        /\ \/ IsStr(args[1], "var")
                           \/ IsStr(args[1], "arg")
                           \/ Len(args) = 1 /\ IsStr(args[1], "partial")
                THEN add(Str(ident))
                ELSE IF Len(args) > 0 THEN add(Arr(<<Str("var"), Str(ident)>>))
                ELSE add(Str(ident))
          [] top.k = "fn" ->
                IF Len(args) > 0 /\ args[Len(args)].kind # "id"
                THEN SyntaxError("Unexpected token")
                ELSE add([kind |-> "id", v |-> Str(ident)])
          [] top.k = "]" -> add(Arr(<<Str("var"), Str(ident)>>))
          [] top.k = "}" -> pushVal(stack, Str(ident))
          [] OTHER -> SyntaxError("Unexpected identifier")

\* an operation token
parseOperation(stack, op) ==
    LET n == Len(stack)
        top == stack[n]
    IN  IF n = 0 \/ top.k # ")" THEN SyntaxError("Unexpected operation")
        ELSE IF Len(top.a) > 0 /\ ~(Len(top.a) = 1 /\ IsStr(top.a[1], "partial"))
        THEN SyntaxError("Unexpected operation")
        ELSE Parsed([stack EXCEPT ![n].a = Append(@, Str(op))])

\* the checks of a closed (let ...) and the list pushed for it
closeLet(args) ==
    LET arg1 == IF Len(args) > 1 THEN args[2] ELSE Undef
    IN  CASE Len(args) = 3 ->
                IF arg1.t \in {"arr", "obj", "null"} THEN Parsed(args)
                ELSE SyntaxError("Expected non-primitive value as 1st argument to 2 argument let")
          [] Len(args) = 4 ->
                IF arg1.t = "arr"
                THEN IF IsStr(at(arg1, 0), "var")
                     THEN IF Len(arg1.v) # 2 \/ arg1.v[2].t # "str"
                          THEN SyntaxError("Illegal varialbe name declaration in 3 argument let")
                          ELSE Parsed([args EXCEPT ![2] = arg1.v[2]])
                     ELSE Parsed(args)
                ELSE IF arg1.t # "str"
                THEN SyntaxError("Illegal varialbe name declaration in 3 argument let")
                ELSE Parsed(args)
          [] OTHER -> SyntaxError("Expected 2 to 3 arguments to let")

\* the token ) without the check for an empty list
closeParenAllowEmpty(stack) ==
    LET n == Len(stack)
        top == stack[n]
        args == top.a
        last == IF Len(args) > 0 THEN args[Len(args)] ELSE [kind |-> "val", v |-> Null]
        names == [j \in 1..(Len(args) - 1) |-> args[j].v]
        checked == IF Len(args) > 0 /\ IsStr(args[1], "let") THEN closeLet(args)
                   ELSE Parsed(args)
    IN  IF n = 0 THEN SyntaxError("Unexpected token")
        ELSE IF top.k = "fn"
        THEN pushVal(popState(stack),
                     Arr(<<Str("fn"), Arr(names),
                           IF last.kind = "id" THEN Arr(<<Str("var"), last.v>>)
                           ELSE last.v>>))
        ELSE IF top.k # ")" THEN SyntaxError("Unexpected token")
        ELSE IF checked.err # "" THEN checked
        ELSE pushVal(popState(stack), Arr(checked.stack))

\* the token )
closeParen(stack) ==
    LET n == Len(stack)
        top == stack[n]
        args == top.a
        last == IF Len(args) > 0 THEN args[Len(args)] ELSE [kind |-> "val", v |-> Null]
        names == [j \in 1..(Len(args) - 1) |-> args[j].v]
        checked == IF IsStr(args[1], "let") THEN closeLet(args) ELSE Parsed(args)
    IN  IF n = 0 THEN SyntaxError("Unexpected token")
        ELSE IF top.k = "fn"
        THEN pushVal(popState(stack),
                     Arr(<<Str("fn"), Arr(names),
                           IF last.kind = "id" THEN Arr(<<Str("var"), last.v>>)
                           ELSE last.v>>))
        ELSE IF top.k # ")" THEN SyntaxError("Unexpected token")
        ELSE IF Len(args) = 0 THEN SyntaxError("Expected function name or operation")
        ELSE IF checked.err # "" THEN checked
        ELSE pushVal(popState(stack), Arr(checked.stack))

\* one of ( ) { } : [ ]
parseSpecial(stack, special) ==
    LET n == Len(stack)
        top == stack[n]
    IN  CASE special = "[" -> Parsed(Append(stack, ListState("]", <<Str("array")>>)))
          [] special = "(" -> Parsed(Append(stack, ListState(")", <<>>)))
          [] special = "{" -> Parsed(Append(stack, ObjState("}", EmptyObj, "")))
          [] special = ":" ->
                IF n = 0 \/ top.k # ":" THEN SyntaxError("Unexpected token")
                ELSE Parsed([stack EXCEPT ![n] = ObjState(":val", top.o, top.key)])
          [] special = "]" ->
                IF n = 0 \/ top.k # "]" THEN SyntaxError("Unexpected token")
                ELSE pushVal(popState(stack), Arr(top.a))
          [] special = ")" -> closeParen(stack)
          [] special = "}" ->
                IF n = 0 \/ top.k # "}" THEN SyntaxError("Unexpected token")
                ELSE pushVal(popState(stack), top.o)

\* the body of the while loop for one match
parseToken(stack, m) ==
    CASE m.group \in {1, 2} -> Parsed(stack)
      [] m.group = 3 -> pushVal(stack, Str(m.v))
      [] m.group = 4 -> pushVal(stack, Num(m.v))
      [] m.group = 5 ->
            (CASE m.v = "NaN" -> pushVal(stack, NaN)
               [] m.v = "null" -> pushVal(stack, Null)
               [] m.v = "true" -> pushVal(stack, Bool(TRUE))
               [] m.v = "false" -> pushVal(stack, Bool(FALSE))
               [] OTHER -> parseIdent(stack, m.v))
      [] m.group = 7 -> parseOperation(stack, m.v)
      [] m.group = 8 -> pushVal(stack, Arr(<<Str("arg"), Num(m.v)>>))
      [] m.group = 9 -> parseSpecial(stack, m.v)

RECURSIVE lastIndexOf(_, _, _)
\* slice.lastIndexOf(ch) for slice = code.slice(0, q), searched from offset
\* q - 1 down: the 0-based offset of the last ch, or -1
lastIndexOf(code, ch, q) ==
    IF q <= 0 THEN -1
    ELSE IF code[q] = ch THEN q - 1
    ELSE lastIndexOf(code, ch, q - 1)

RECURSIVE countLines(_, _, _, _)
\* the loop of the constructor: lineno after the newlines of code.slice(0, q)
\* from offset index on
countLines(code, q, index, lineno) ==
    IF index >= q THEN lineno
    ELSE IF code[index + 1] = "\n" THEN countLines(code, q, index + 1, lineno + 1)
    ELSE countLines(code, q, index + 1, lineno)

\* new JsonListLogicSyntaxError(index, code, message); matchIndex is
\* match.index of the token being handled (index itself when there is none)
JsonListLogicSyntaxError(index, code, message, matchIndex) ==
    LET lineStart == lastIndexOf(code, "\n", index) + 1
    IN  [done |-> TRUE, err |-> "SyntaxError", msg |-> message, v |-> Undef,
         index |-> index, lineno |-> countLines(code, index, 0, 1),
         column |-> index - lineStart, matchIndex |-> matchIndex]

RECURSIVE parseLoop(_, _, _)
\* the while loop from regex.lastIndex = lastIndex on, and the checks after it
parseLoop(code, lastIndex, stack) ==
    IF lastIndex < Len(code)
    THEN LET m == regexExec(code, lastIndex + 1)
             r == parseToken(stack, m)
         IN  IF m.group = 0
             THEN JsonListLogicSyntaxError(lastIndex, code, "Unexpected character", lastIndex)
             ELSE IF r.err # ""
             THEN JsonListLogicSyntaxError(lastIndex, code, r.msg, m.from - 1)
             ELSE parseLoop(code, m.to - 1, r.stack)
    ELSE IF Len(stack) = 0
    THEN JsonListLogicSyntaxError(lastIndex, code, "Unexpected end of file", lastIndex)
    ELSE IF Len(stack) > 1 \/ stack[1].k # "val"
    THEN JsonListLogicSyntaxError(lastIndex, code, "Unexpected end of file, expected",
                                  lastIndex)
    ELSE [done |-> TRUE, err |-> "", msg |-> "", index |-> lastIndex, v |-> stack[1].v]

parseLogic(code) == parseLoop(code, 0, <<>>)

(***************************************************************************)
(* The host: it holds a Logic Value, an input mapping and the option, and  *)
(* calls execLogic, compileLogic and execByteCode on them.                 *)
(***************************************************************************)
NotRun == [done |-> FALSE]

\* the names of a set in some order
seqOf(S) == IF S = {} THEN <<>> ELSE LET x == CHOOSE y \in S : TRUE IN <<x>> \o seqOf(S \ {x})

\* the host's input object after a call: the root scope is that very object
\* (const scope = input ?? Object.create(null)), so what the call wrote to the
\* root scope it wrote to the input
written(inp, root) ==
    IF inp.t # "obj" THEN inp
    ELSE Obj(inp.keys \o seqOf(DOMAIN root \ {inp.keys[i] : i \in 1..Len(inp.keys)}), root)
\* no Logic Value yet: the source text has not been parsed
NoLogic == [t |-> "none"]

ParseLogic ==
    /\ src # <<>>
    /\ ~parseOut.done
    /\ parseOut' = parseLogic(src)
    /\ jll' = IF parseOut'.err = "" THEN parseOut'.v ELSE NoLogic
    /\ UNCHANGED <<src, input, allowTuringComplete, operations, execOut, compiled, vmOut,
                   given, runs>>

ExecLogic ==
    /\ jll # NoLogic
    /\ ~execOut.done
    /\ execOut' = execLogic(jll, input, allowTuringComplete, operations)
    /\ input' = written(input, execOut'.root)
    /\ UNCHANGED <<src, jll, allowTuringComplete, operations, parseOut, compiled, vmOut,
                   given, runs>>

CompileLogic ==
    /\ jll # NoLogic
    /\ ~compiled.done
    /\ compiled' = compileLogic(jll, allowTuringComplete, operations)
    /\ UNCHANGED <<src, jll, input, allowTuringComplete, operations, parseOut, execOut, vmOut,
                   given, runs>>

ExecByteCode ==
    /\ compiled.done
    /\ compiled.err = ""
    /\ ~vmOut.done
    /\ vmOut' = execByteCode(compiled.code, operations, input)
    /\ input' = written(input, vmOut'.root)
    /\ UNCHANGED <<src, jll, allowTuringComplete, operations, parseOut, execOut,
                   compiled, given, runs>>

\* the host parses a source text and runs the Logic Value in both engines
Next == ParseLogic \/ ExecLogic \/ CompileLogic \/ ExecByteCode

InitSource(sources, inputs, atcs) ==
    /\ src \in sources
    /\ parseOut = NotRun
    /\ jll = NoLogic
    /\ input \in inputs
    /\ allowTuringComplete \in atcs
    /\ operations = {}
    /\ execOut = NotRun
    /\ compiled = NotRun
    /\ vmOut = NotRun
    /\ given = input
    /\ runs = 0

\* the host hands over a Logic Value it holds as JSON
NextLogic == ExecLogic \/ CompileLogic \/ ExecByteCode

InitLogic(programs, inputs, atcs) ==
    /\ src = <<>>
    /\ parseOut = NotRun
    /\ jll \in programs
    /\ input \in inputs
    /\ allowTuringComplete \in atcs
    /\ operations = {}
    /\ execOut = NotRun
    /\ compiled = NotRun
    /\ vmOut = NotRun
    /\ given = input
    /\ runs = 0

(***************************************************************************)
(* Families of programs.                                                   *)
(***************************************************************************)
RECURSIVE Tuples(_, _)
\* the sequences of length n over S
Tuples(S, n) ==
    IF n = 0 THEN {<<>>}
    ELSE {Append(t, x) : t \in Tuples(S, n - 1), x \in S}
TuplesUpTo(S, lo, hi) == UNION {Tuples(S, n) : n \in lo..hi}

\* ['+', 1, 2, 3] and the like
Op(tag, args) == Arr(<<Str(tag)>> \o args)
V(name) == Op("var", <<Str(name)>>)
Fn0(body) == Op("fn", <<body>>)
Let3(name, value, body) == Op("let", <<Str(name), value, body>>)

\* where a form is put: as the whole program, or as the last argument of a
\* call of array
Placements == {"whole", "array"}
Place(where, form) ==
    IF where = "whole" THEN form ELSE Op("array", <<Num(1), Num(1), form>>)
\* the path of the form in the placed program
PlacePath(where) == IF where = "whole" THEN <<>> ELSE <<3>>

\* literals: null, falsy and not null, truthy
Atoms == {Null, Num(0), Str("a"), Bool(TRUE)}

IfForms == {Op("if", a) : a \in TuplesUpTo(Atoms, 2, MaxIfArgs)}
IfPrograms == {Place(w, f) : w \in Placements, f \in IfForms}
InitIf == InitLogic(IfPrograms, {Null}, BOOLEAN)
SpecIf == InitIf /\ [][NextLogic]_vars

ShortOps == {"and", "or", "??"}
ShortForms == {Op(op, a) : op \in ShortOps, a \in TuplesUpTo(Atoms, 1, MaxOperands)}
ShortPrograms == {Place(w, f) : w \in Placements, f \in ShortForms}
InitShort == InitLogic(ShortPrograms, {Null}, BOOLEAN)
SpecShort == InitShort /\ [][NextLogic]_vars
\* decimal numerals as written and the numbers they denote
Numerals ==
    {[text |-> <<"1">>, value |-> 1], [text |-> <<"2">>, value |-> 2],
     [text |-> <<"3">>, value |-> 3], [text |-> <<"-", "4">>, value |-> -4],
     [text |-> <<"+", "5">>, value |-> 5], [text |-> <<"1", "0">>, value |-> 10]}
RECURSIVE spaced(_, _)
\* the numerals from the i-th on, each after a blank
spaced(numerals, i) ==
    IF i > Len(numerals) THEN <<>>
    ELSE <<" ">> \o numerals[i].text \o spaced(numerals, i + 1)
\* (+ n1 ... nk) for k = 0..MaxArgs, with the numbers the numerals denote
PlusTexts ==
    {[text |-> <<"(", "+">> \o spaced(n, 1) \o <<")">>,
      args |-> [i \in 1..Len(n) |-> n[i].value]] : n \in TuplesUpTo(Numerals, 0, MaxArgs)}
Init == InitSource({p.text : p \in PlusTexts}, {Null}, BOOLEAN)
Spec == Init /\ [][Next]_vars

\* the values truthiness is asked of
Scalars ==
    {Null, Bool(TRUE), Bool(FALSE), Num(0), Num(1), NaN, Str(""), Str("0"), Str("a")}
Elements == {Null, Num(0), Str(""), Arr(<<>>)}
TruthyValues ==
    Scalars \cup {Arr(e) : e \in TuplesUpTo(Elements, 0, MaxLen)}
            \cup {EmptyObj, Obj(<<"k">>, "k" :> Num(0))}
TruthyInputs == {Obj(<<"v">>, "v" :> x) : x \in TruthyValues}
\* programs whose result is decided by isTruthy of one value: of the input's
\* v, of a missing argument (undefined), of a closure
TruthyPrograms ==
    {Op("!!", <<V("v")>>), Op("!", <<V("v")>>),
     Op("if", <<V("v"), Num(1), Num(0)>>), Op("and", <<V("v"), Num(1)>>),
     Op("!!", <<>>), Op("!!", <<Fn0(Num(1))>>)}
InitTruthy == InitLogic(TruthyPrograms, TruthyInputs, BOOLEAN)
SpecTruthy == InitTruthy /\ [][NextLogic]_vars

\* chains of nested 3-argument let forms over two names, read in an input
\* that binds none of the names or two of them
LetNames == {"x", "y"}
LetInits == {Num(1), Num(2), V("x"), V("y")}
LetBodies == {V("x"), V("y"), V("z")}
RECURSIVE LetChains(_)
LetChains(n) ==
    IF n = 0 THEN LetBodies
    ELSE {Let3(name, init, body) :
            name \in LetNames, init \in LetInits, body \in LetChains(n - 1)}
LetPrograms == UNION {LetChains(n) : n \in 1..MaxLetChain}
LetInputs == {Null, Obj(<<"y", "z">>, ("y" :> Num(5)) @@ ("z" :> Num(7)))}
InitLet == InitLogic(LetPrograms, LetInputs, BOOLEAN)
SpecLet == InitLet /\ [][NextLogic]_vars

\* calls of registry operations with and without closures among the
\* arguments, closures reaching an argument through a let-bound name, and a
\* closure bound by let that hands itself to map
CallOps == {"id", "array", "map", "reduce", "length", "print"}
OneFn == Fn0(Num(1))
CallArgs == {Num(1), Op("array", <<Num(1)>>), OneFn, Op("id", <<OneFn>>)}
CallForms == {Op(op, a) : op \in CallOps, a \in TuplesUpTo(CallArgs, 1, MaxCallArgs)}
MapSelf == Op("map", <<Op("array", <<Num(1)>>), V("f")>>)
SandboxPrograms ==
    CallForms
    \cup {Let3("f", OneFn, Op(op, <<Op("array", <<Num(1)>>), V("f")>>)) : op \in CallOps}
    \cup {Let3("f", Fn0(MapSelf), MapSelf)}
InitSandbox == InitLogic(SandboxPrograms, {Null}, BOOLEAN)
SpecSandbox == InitSandbox /\ [][NextLogic]_vars

(***************************************************************************)
(* What the outcomes are compared with.                                    *)
(***************************************************************************)
RECURSIVE nodeAt(_, _)
\* the node of code that path leads to
nodeAt(code, path) ==
    IF path = <<>> THEN code ELSE nodeAt(at(code, path[1]), Tail(path))

\* the children of the node at path whose evaluation the log records, in
\* the order of evaluation
childEvals(log, path) ==
    LET n == Len(path)
        under(ev) == /\ ev.e = "eval"
                     /\ Len(ev.p) = n + 1
                     /\ SubSeq(ev.p, 1, n) = path
        sel == SelectSeq(log, under)
    IN  [k \in 1..Len(sel) |-> sel[k].p[n + 1]]

\* where the generated form sits in the program held
formPath == IF at(jll, 0) = Str("array") THEN PlacePath("array") ELSE PlacePath("whole")
theForm == nodeAt(jll, formPath)
formArgs == Tail(theForm.v)
\* the value of the form, read off the value of the program
formValue(out) == IF formPath = <<>> THEN out.v ELSE out.v.v[Len(out.v.v)]

\* the values that count as false: null and undefined, false, 0, NaN, the
\* empty string, the empty array, an object without keys
falsy(value) ==
    CASE value.t \in {"undef", "null", "nan"} -> TRUE
      [] value.t = "bool" -> value.v = FALSE
      [] value.t = "num" -> value.v = 0
      [] value.t = "str" -> value.v = ""
      [] value.t = "arr" -> value.v = <<>>
      [] value.t = "obj" -> value.keys = <<>>
      [] OTHER -> FALSE

RECURSIVE ifOutcome(_, _)
\* what an if form over the literals a is to evaluate and to return, from
\* argument i on: the conditions up to the first truthy one and its value,
\* else the unpaired last argument, else null
ifOutcome(a, i) ==
    IF i > Len(a) THEN [evals |-> <<>>, v |-> Null]
    ELSE IF i = Len(a) THEN [evals |-> <<i>>, v |-> a[i]]
    ELSE IF ~falsy(a[i]) THEN [evals |-> <<i, i + 1>>, v |-> a[i + 1]]
    ELSE LET r == ifOutcome(a, i + 2)
         IN  [evals |-> <<i>> \o r.evals, v |-> r.v]

\* whether an operand with this value gives the result of the form
settles(op, value) ==
    CASE op = "and" -> falsy(value)
      [] op = "or" -> ~falsy(value)
      [] op = "??" -> value.t \notin {"null", "undef"}

RECURSIVE shortOutcome(_, _, _)
\* what and / or / ?? over the literals a is to evaluate and to return
shortOutcome(op, a, i) ==
    IF i >= Len(a) \/ settles(op, a[i]) THEN [evals |-> <<i>>, v |-> a[i]]
    ELSE LET r == shortOutcome(op, a, i + 1)
         IN  [evals |-> <<i>> \o r.evals, v |-> r.v]

\* two results are the same value; two functions are not told apart
sameValue(a, b) == IF IsFunction(a) /\ IsFunction(b) THEN TRUE ELSE a = b

\* the stack machine ran into a part of it that the model leaves out
unmodelled(out) == out.done /\ out.err = "Unmodelled"

(***************************************************************************)
(* The claims.                                                             *)
(***************************************************************************)

\* C5: execLogic on (if c1 v1 c2 v2 ... [else]) with at least two arguments
\* evaluates the conditions left to right, returns the value paired with the
\* first truthy condition, otherwise the unpaired trailing value, otherwise
\* null, and evaluates no condition after the first truthy one and no value
\* expression other than the one it returns.
C5_IfEvaluation ==
    execOut.done =>
        LET r == ifOutcome(formArgs, 1)
        IN  /\ execOut.err = ""
            /\ formValue(execOut) = r.v
            /\ childEvals(execOut.log, formPath) = r.evals

\* C5 witness: a four-argument if whose first condition is falsy and whose
\* second is truthy has been evaluated: conditions 1 and 3, then value 4.
C5_Witness ==
    /\ execOut.done
    /\ Len(formArgs) = 4
    /\ falsy(formArgs[1])
    /\ ~falsy(formArgs[3])
    /\ childEvals(execOut.log, formPath) = <<1, 3, 4>>

\* C6: every if form that execLogic accepts is accepted by compileLogic
\* wherever it occurs, the whole program included, and execByteCode on the
\* compiled code returns the value execLogic returns, whichever branch is
\* taken.
C6_IfCompiles ==
    /\ (compiled.done /\ IsStr(at(theForm, 0), "if")) => compiled.err = ""
    /\ (vmOut.done /\ execOut.done /\ ~unmodelled(vmOut)) =>
            /\ vmOut.err = execOut.err
            /\ sameValue(vmOut.v, execOut.v)

\* C7: in execLogic, and returns the first falsy operand value or else the
\* last operand's value, or the first truthy one or else the last, ?? the
\* first non-null one or else the last; operands are evaluated left to right
\* and none after the one that decides the result.
C7_ShortCircuit ==
    execOut.done =>
        LET r == shortOutcome(at(theForm, 0).v, formArgs, 1)
        IN  /\ execOut.err = ""
            /\ formValue(execOut) = r.v
            /\ childEvals(execOut.log, formPath) = r.evals

\* C7 witness: an and of three operands whose second operand is falsy has
\* been evaluated: operands 1 and 2 and not operand 3.
C7_Witness ==
    /\ execOut.done
    /\ IsStr(at(theForm, 0), "and")
    /\ Len(formArgs) = 3
    /\ ~falsy(formArgs[1])
    /\ falsy(formArgs[2])
    /\ childEvals(execOut.log, formPath) = <<1, 2>>

\* C8: every and, or and ?? form with at least one argument is accepted by
\* compileLogic wherever it occurs, the whole program included, and the
\* compiled code leaves exactly the value execLogic returns.
C8_ShortCompiles ==
    /\ (compiled.done /\ at(theForm, 0).v \in ShortOps) => compiled.err = ""
    /\ (vmOut.done /\ execOut.done /\ ~unmodelled(vmOut)) =>
            /\ vmOut.err = execOut.err
            /\ sameValue(vmOut.v, execOut.v)

\* the argument the truthiness programs test: the input's v as var yields it,
\* undefined for a missing argument, a function for a closure
testedValue ==
    IF Len(jll.v) < 2 THEN Undef
    ELSE IF IsStr(at(at(jll, 1), 0), "fn") THEN [t |-> "fn"]
    ELSE OrNull(input.v["v"])

\* what a truthiness program is to return for a tested value that is truthy
\* or not
truthyResult(op, truthy) ==
    CASE op = "!!" -> Bool(truthy)
      [] op = "!" -> Bool(~truthy)
      [] op = "if" -> IF truthy THEN Num(1) ELSE Num(0)
      [] op = "and" -> IF truthy THEN Num(1) ELSE testedValue

\* C9: isTruthy returns false exactly for null/undefined, false, 0, NaN, the
\* empty string, the empty array and an object with no enumerable keys, and
\* true for every other value: a non-empty array is truthy whatever it holds
\* and the string "0" is truthy.
C9_IsTruthyTable ==
    /\ \A value \in TruthyValues : isTruthy(value) = ~falsy(value)
    /\ (execOut.done /\ execOut.err = "") =>
            execOut.v = truthyResult(at(jll, 0).v, ~falsy(testedValue))
    /\ (vmOut.done /\ vmOut.err = "" /\ Len(jll.v) > 1) =>
            vmOut.v = truthyResult(at(jll, 0).v, ~falsy(testedValue))

\* C9 witness: (!! (var v)) has been evaluated on an input whose v is [0],
\* and again on one whose v is "0", with the result true.
C9_Witness ==
    /\ execOut.done
    /\ jll = Op("!!", <<V("v")>>)
    /\ input.v["v"] \in {Arr(<<Num(0)>>), Str("0")}
    /\ execOut.v = Bool(TRUE)

envGet(env, name) == IF name \in DOMAIN env THEN env[name] ELSE Null
\* a literal, or (var name) in env
readIn(env, code) == IF code.t = "arr" THEN envGet(env, code.v[2].v) ELSE code
RECURSIVE letOutcome(_, _)
\* what a chain of 3-argument lets is to return: the bindings are made one
\* after the other on top of the enclosing bindings, each initializer reading
\* what was bound before it
letOutcome(env, code) ==
    IF code.t = "arr" /\ IsStr(at(code, 0), "let")
    THEN letOutcome((code.v[2].v :> readIn(env, code.v[3])) @@ env, code.v[4])
    ELSE readIn(env, code)

\* C10: a chain of nested 3-argument let forms binds its names one after
\* the other in one child frame of the enclosing scope: an initializer sees
\* the bindings before it, a later binding of a name shadows the earlier one
\* in the body, names not bound in the chain resolve in the enclosing scope,
\* and execLogic and compile + execByteCode give the same result.
C10_LetChain ==
    /\ execOut.done =>
            /\ execOut.err = ""
            /\ execOut.v = letOutcome(objVars(input), jll)
    /\ (vmOut.done /\ execOut.done /\ ~unmodelled(vmOut)) =>
            /\ vmOut.err = ""
            /\ vmOut.v = execOut.v

\* the log entry ev records a closure as the argument of a registry operation
\* at a position the safety annotation of the operation does not mark safe
unsafeClosureArg(ev) ==
    /\ ev.e = "arg"
    /\ ev.f
    /\ LET op == at(nodeAt(jll, ev.p), 0)
       IN  /\ op.t = "str"
           /\ op.v \in BUILTINS
           /\ ~(ev.i + 1 <= Len(SAFE_FNARGS(op.v)) /\ SAFE_FNARGS(op.v)[ev.i + 1])

\* the operation of the node at path was invoked
invoked(log, path) == \E k \in 1..Len(log) : log[k].e = "call" /\ log[k].p = path

illegalFunction(out) ==
    out.err = "TypeError" /\ out.msg = "argument is of illegal type 'function'"

C3_SandboxTerminates ==
    (execOut.done /\ ~allowTuringComplete) => execOut.err # "RangeError"

\* the numbers the source text held was written from
writtenArgs == (CHOOSE p \in PlusTexts : p.text = src).args
RECURSIVE sumFrom(_, _)
sumFrom(numbers, i) ==
    IF i > Len(numbers) THEN 0 ELSE numbers[i] + sumFrom(numbers, i + 1)

\* C4: for + applied to two or more numeric arguments, parsing the surface
\* form yields the operation node with tag "+" and the arguments in order,
\* and execLogic and compile + execByteCode both return the sum of the
\* arguments: (+ 1 2 3) parses to ["+", 1, 2, 3] and yields 6 in both.
C4_PlusSum ==
    Len(writtenArgs) >= 2 =>
        /\ parseOut.done =>
                /\ parseOut.err = ""
                /\ parseOut.v = Op("+", [i \in 1..Len(writtenArgs) |-> Num(writtenArgs[i])])
        /\ execOut.done =>
                execOut.err = "" /\ execOut.v = Num(sumFrom(writtenArgs, 1))
        /\ compiled.done => compiled.err = ""
        /\ vmOut.done =>
                vmOut.err = "" /\ vmOut.v = Num(sumFrom(writtenArgs, 1))

\* C4 witness: (+ 1 2 3) has been parsed to ["+", 1, 2, 3] and has yielded 6
\* in execLogic and in execByteCode.
C4_Witness ==
    /\ src = <<"(", "+", " ", "1", " ", "2", " ", "3", ")">>
    /\ jll = Op("+", <<Num(1), Num(2), Num(3)>>)
    /\ execOut.done /\ execOut.v = Num(6)
    /\ vmOut.done /\ vmOut.v = Num(6)

\* C1: for every Logic Value that execLogic and compileLogic both accept
\* under the same options and for every input, execByteCode on the compiled
\* code returns the same value as execLogic.
C1_EnginesAgree ==
    (/\ execOut.done /\ execOut.err = ""
     /\ compiled.done /\ compiled.err = ""
     /\ vmOut.done /\ ~unmodelled(vmOut)) =>
        /\ vmOut.err = ""
        /\ sameValue(vmOut.v, execOut.v)

(***************************************************************************)
(* The 2-argument let.                                                     *)
(***************************************************************************)
Let2(vars1, body) == Op("let", <<vars1, body>>)
\* the mappings a 2-argument let is given, as object literals
Let2Maps ==
    {EmptyObj, Obj(<<"x">>, "x" :> Num(1)), Obj(<<"y">>, "y" :> Num(2)),
     Obj(<<"x", "y">>, ("x" :> Num(1)) @@ ("y" :> Num(2)))}
ScopeNames == {"x", "y", "z"}
\* a 2-argument let that reads the name inside: alone, followed by a read of
\* the name after in the enclosing scope, and the same inside a 3-argument
\* let that binds y
Let2Cases ==
    [m : Let2Maps, inside : ScopeNames, after : ScopeNames,
     shape : {"whole", "then", "nested"}]
let2Program(c) ==
    CASE c.shape = "whole" -> Let2(c.m, V(c.inside))
      [] c.shape = "then" -> Op("array", <<Let2(c.m, V(c.inside)), V(c.after)>>)
      [] c.shape = "nested" ->
            Let3("y", Num(9), Op("array", <<Let2(c.m, V(c.inside)), V(c.after)>>))
Let2Programs == {let2Program(c) : c \in Let2Cases}
Let2Inputs == {Null, Obj(<<"y", "z">>, ("y" :> Num(5)) @@ ("z" :> Num(7)))}
InitLet2 == InitLogic(Let2Programs, Let2Inputs, BOOLEAN)
SpecLet2 == InitLet2 /\ [][NextLogic]_vars

\* what the program of case c is to return on the input held: the name
\* inside is read in the mapping alone, the name after in the enclosing scope
let2Outcome(c) ==
    LET enclosing == IF c.shape = "nested"
                     THEN ("y" :> Num(9)) @@ objVars(input)
                     ELSE objVars(input)
        inner == envGet(c.m.v, c.inside)
    IN  IF c.shape = "whole" THEN inner
        ELSE Arr(<<inner, envGet(enclosing, c.after)>>)

\* C11: inside the body of a 2-argument let, a var lookup of a name that is
\* not a key of the mapping yields null even when the enclosing scope binds
\* that name, and after the let expression the enclosing scope is in effect
\* again, in execLogic and in execByteCode.
C11_Let2Isolates ==
    \A c \in Let2Cases :
        jll = let2Program(c) =>
            /\ execOut.done => execOut.err = "" /\ execOut.v = let2Outcome(c)
            /\ (vmOut.done /\ ~unmodelled(vmOut)) =>
                    vmOut.err = "" /\ vmOut.v = let2Outcome(c)

(***************************************************************************)
(* Closures with declared parameter names.                                 *)
(***************************************************************************)
\* ['fn', [n1, ..., nk], body]
FnN(names, body) == Op("fn", <<Arr([i \in 1..Len(names) |-> Str(names[i])]), body>>)
\* [f, a1, ..., am]: a call whose operator is itself an operation node
Apply(f, args) == Arr(<<f>> \o args)

ParamLists == {<<"x">>, <<"x", "y">>}
ParamReads == {"x", "y", "z", "undefined"}
ParamArgs == <<Num(11), Num(12), Num(13)>>
\* a closure over the declared names whose body reads one name, called with
\* the first m of three arguments
ParamCases == [names : ParamLists, read : ParamReads, m : 0..3]
paramProgram(c) == Apply(FnN(c.names, V(c.read)), SubSeq(ParamArgs, 1, c.m))
ParamPrograms == {paramProgram(c) : c \in ParamCases}
ParamInputs ==
    {Null, Obj(<<"x", "y", "z">>, ("x" :> Num(5)) @@ ("y" :> Num(6)) @@ ("z" :> Num(7)))}
InitParam == InitLogic(ParamPrograms, ParamInputs, BOOLEAN)
SpecParam == InitParam /\ [][NextLogic]_vars

\* what the body of case c is to read: a declared name is its argument, or
\* null when the argument is missing; any other name is read in the defining
\* scope, here the input
paramOutcome(c) ==
    IF \E i \in 1..Len(c.names) : c.names[i] = c.read
    THEN LET i == CHOOSE i \in 1..Len(c.names) : c.names[i] = c.read
         IN  IF i <= c.m THEN ParamArgs[i] ELSE Null
    ELSE envGet(objVars(input), c.read)

\* C12: when a closure with declared names n1..nk is invoked by execLogic
\* with m arguments, the child scope binds exactly the declared names: ni is
\* the i-th argument for i <= m, each ni with i > m reads as null in the body
\* even if the defining scope binds the same name, and arguments beyond the
\* k-th create no binding under any name.
C12_ClosureBindsDeclaredNames ==
    \A c \in ParamCases :
        (jll = paramProgram(c) /\ allowTuringComplete /\ execOut.done) =>
            execOut.err = "" /\ execOut.v = paramOutcome(c)

\* the arrays of numbers map runs over
Items == {1, 2, 3}
ItemLists == TuplesUpTo(Items, 1, MaxItems)
NumArr(ns) == Arr([i \in 1..Len(ns) |-> Num(ns[i])])
\* (map values (fn (name) (+ name k))) on an input that holds values
MapIncCases == [name : {"x", "v"}, k : {1, 2}]
mapIncProgram(c) ==
    Op("map", <<V("values"), FnN(<<c.name>>, Op("+", <<V(c.name), Num(c.k)>>))>>)
MapIncPrograms == {mapIncProgram(c) : c \in MapIncCases}
MapIncInputs == {Obj(<<"values">>, "values" :> NumArr(ns)) : ns \in ItemLists}
InitMapInc == InitLogic(MapIncPrograms, MapIncInputs, BOOLEAN)
SpecMapInc == InitMapInc /\ [][NextLogic]_vars

\* each element with k added
mapIncOutcome(c) ==
    LET items == input.v["values"].v
    IN  Arr([i \in 1..Len(items) |-> Num(items[i].v + c.k)])

\* C13: a closure with declared parameter names resolves (var name) in its
\* body to the corresponding call argument in both engines: map over
\* [1, 2, 3] with a one-parameter fn that adds 1 to its parameter yields
\* [2, 3, 4] from execLogic and from compileLogic + execByteCode.
C13_NamedParameterInBothEngines ==
    \A c \in MapIncCases :
        jll = mapIncProgram(c) =>
            /\ execOut.done => execOut.err = "" /\ execOut.v = mapIncOutcome(c)
            /\ compiled.done => compiled.err = ""
            /\ (vmOut.done /\ ~unmodelled(vmOut)) =>
                    vmOut.err = "" /\ vmOut.v = mapIncOutcome(c)

(***************************************************************************)
(* Closures and the scope they are defined in.                             *)
(***************************************************************************)
\* a closure that reads x, made inside a let that binds x to a, and called
\* after that let was left, inside another let that binds x to b, or by map
\* inside that other let
CaptureCases == [a : {1, 2}, b : {3, 4}, shape : {"after", "other", "map"}]
captured(c) == Let3("x", Num(c.a), Fn0(V("x")))
captureProgram(c) ==
    CASE c.shape = "after" -> Apply(captured(c), <<>>)
      [] c.shape = "other" ->
            Let3("f", captured(c), Let3("x", Num(c.b), Apply(V("f"), <<>>)))
      [] c.shape = "map" ->
            Let3("f", captured(c),
                 Let3("x", Num(c.b), Op("map", <<Op("array", <<Num(0)>>), V("f")>>)))
CapturePrograms == {captureProgram(c) : c \in CaptureCases}
CaptureInputs == {Null, Obj(<<"x">>, "x" :> Num(5))}
InitCapture == InitLogic(CapturePrograms, CaptureInputs, BOOLEAN)
SpecCapture == InitCapture /\ [][NextLogic]_vars

\* the closure's x is the x of the let it was made in
captureOutcome(c) == IF c.shape = "map" THEN Arr(<<Num(c.a)>>) ELSE Num(c.a)

\* C14: a closure resolves free variables in the scope where it was defined,
\* not in the scope current when it is called: a closure created inside a let
\* and invoked after that let's scope has been left, or from inside a
\* different scope, still sees the let's bindings, in execLogic and in
\* execByteCode.
C14_ClosureSeesDefiningScope ==
    \A c \in CaptureCases :
        (jll = captureProgram(c) /\ (allowTuringComplete \/ c.shape = "map")) =>
            /\ execOut.done => execOut.err = "" /\ execOut.v = captureOutcome(c)
            /\ compiled.done => compiled.err = ""
            /\ (vmOut.done /\ ~unmodelled(vmOut)) =>
                    vmOut.err = "" /\ vmOut.v = captureOutcome(c)

(***************************************************************************)
(* Fibonacci by self-application (test/ehc.jll, test 'fibonacci').         *)
(***************************************************************************)
\* (reduce [(- n k)] fib fib)
fibStep(k) ==
    Op("reduce", <<Op("array", <<Op("-", <<V("n"), Num(k)>>)>>), V("fib"), V("fib")>>)
\* (fn fib n (if (< n 2) n (+ (reduce [(- n 2)] fib fib) (reduce [(- n 1)] fib fib))))
fibImpl ==
    FnN(<<"fib", "n">>,
        Op("if", <<Op("<", <<V("n"), Num(2)>>), V("n"),
                   Op("+", <<fibStep(2), fibStep(1)>>)>>))
\* (reduce [n] (fn fib n (reduce [n] fib fib)) fibImpl)
fibByReduce ==
    Op("reduce",
       <<Op("array", <<V("n")>>),
         FnN(<<"fib", "n">>, Op("reduce", <<Op("array", <<V("n")>>), V("fib"), V("fib")>>)),
         fibImpl>>)
FibInputs == {Obj(<<"n">>, "n" :> Num(n)) : n \in 0..MaxFibArg}
InitFibReduce == InitLogic({fibByReduce}, FibInputs, BOOLEAN)
SpecFibReduce == InitFibReduce /\ [][NextLogic]_vars

RECURSIVE fibonacci(_)
fibonacci(n) == IF n < 2 THEN n ELSE fibonacci(n - 1) + fibonacci(n - 2)

\* C15: a fn bound to a name and invoked through that name recurses: the
\* fibonacci-by-self-application program, a two-parameter fn (fib, n)
\* threaded through reduce with itself as initial value, evaluated on input
\* {n: 12} with no options yields 144 in execLogic and in compileLogic +
\* execByteCode.
C15_FibonacciByReduce ==
    ~allowTuringComplete =>
        /\ execOut.done =>
                execOut.err = "" /\ execOut.v = Num(fibonacci(input.v["n"].v))
        /\ compiled.done => compiled.err = ""
        /\ (vmOut.done /\ ~unmodelled(vmOut)) =>
                vmOut.err = "" /\ vmOut.v = Num(fibonacci(input.v["n"].v))

RECURSIVE sameJson(_, _)
\* a and b are the same JSON value: the kinds are compared before the
\* contents
sameJson(a, b) ==
    IF a.t # b.t THEN FALSE
    ELSE CASE a.t \in {"bool", "num", "str"} -> a.v = b.v
           [] a.t = "arr" ->
                /\ Len(a.v) = Len(b.v)
                /\ \A i \in 1..Len(a.v) : sameJson(a.v[i], b.v[i])
           [] a.t = "obj" ->
                /\ a.keys = b.keys
                /\ \A k \in DOMAIN a.v : sameJson(a.v[k], b.v[k])
           [] OTHER -> TRUE

(***************************************************************************)
(* partial.                                                                *)
(***************************************************************************)
Nums(ns) == [i \in 1..Len(ns) |-> Num(ns[i])]
\* (partial op b1 ... bk) called with a1 ... am, and map over an array with
\* (partial - b)
PartialCases ==
    [shape : {"apply"}, op : {"array", "-"},
     bound : TuplesUpTo({1, 2}, 0, MaxCallArgs), args : TuplesUpTo({3, 4}, 0, MaxCallArgs)]
    \cup [shape : {"map"}, op : {"-"}, bound : Tuples({1, 2}, 1),
          args : Tuples(Items, MaxItems)]
partialOf(c) == Op("partial", <<Str(c.op)>> \o Nums(c.bound))
partialProgram(c) ==
    IF c.shape = "apply" THEN Apply(partialOf(c), Nums(c.args))
    ELSE Op("map", <<Op("array", Nums(c.args)), partialOf(c)>>)
InitPartial == \E c \in PartialCases : InitLogic({partialProgram(c)}, {Null}, BOOLEAN)
SpecPartial == InitPartial /\ [][NextLogic]_vars

\* the operator on the numbers ns: array returns them, - negates one number
\* and subtracts the second from the first of several
applied(op, ns) ==
    IF op = "array" THEN Arr(Nums(ns))
    ELSE IF Len(ns) = 0 THEN NaN
    ELSE IF Len(ns) = 1 THEN Num(0 - ns[1])
    ELSE Num(ns[1] - ns[2])

\* the operator called with the bound arguments and then the call's; map
\* calls with the item, its index and the array
partialOutcome(c) ==
    IF c.shape = "apply" THEN applied(c.op, c.bound \o c.args)
    ELSE Arr([i \in 1..Len(c.args) |-> applied(c.op, c.bound \o <<c.args[i], i - 1>>)])

\* C16: partial applied to an operator name and bound arguments b1..bk
\* returns a callable that, called with a1..am, invokes the operator with
\* b1..bk, a1..am in that order, and with no bound argument returns the
\* operator itself; execLogic and compileLogic + execByteCode agree: map over
\* [1, 2, 3] with (partial - 2) yields [1, 0, -1].
C16_PartialPrependsBoundArgs ==
    \A c \in PartialCases :
        (sameJson(jll, partialProgram(c)) /\ (allowTuringComplete \/ c.shape = "map")) =>
            /\ execOut.done => execOut.err = "" /\ sameJson(execOut.v, partialOutcome(c))
            /\ compiled.done => compiled.err = ""
            /\ (vmOut.done /\ ~unmodelled(vmOut)) =>
                    vmOut.err = "" /\ sameJson(vmOut.v, partialOutcome(c))

(***************************************************************************)
(* The chained comparisons: (op n1 ... nk) for the four relations on k     *)
(* numbers, k from none to MaxOperands.                                    *)
(***************************************************************************)
Relations == {"<", ">", "<=", ">="}

CompareCases == {[op |-> op, ns |-> ns] : op \in Relations, ns \in TuplesUpTo(Items, 0, MaxOperands)}

compareProgram(c) == Op(c.op, Nums(c.ns))

ComparePrograms == {compareProgram(c) : c \in CompareCases}

InitCompare == InitLogic(ComparePrograms, {Null}, BOOLEAN)
SpecCompare == InitCompare /\ [][NextLogic]_vars

\* the relation the operator names, on two integers
related(op, x, y) ==
    CASE op = "<" -> x < y
      [] op = ">" -> x > y
      [] op = "<=" -> x <= y
      [] OTHER -> x >= y

\* every adjacent pair of ns satisfies the relation
pairwise(op, ns) == \A i \in 1..(Len(ns) - 1) : related(op, ns[i], ns[i + 1])

\* C17: <, >, <= and >= applied to two or more arguments return true exactly
\* when every adjacent pair of arguments satisfies the relation, so that
\* (< 1 2 3) is true and (< 1 3 2) is false, and raise a TypeError when given
\* fewer than two arguments.
C17_ChainedComparisons ==
    \A c \in CompareCases :
        (jll = compareProgram(c) /\ execOut.done) =>
            IF Len(c.ns) < 2 THEN execOut.err = "TypeError"
            ELSE execOut.err = "" /\ execOut.v = Bool(pairwise(c.op, c.ns))

\* (< 1 3 2) has been evaluated: its first pair satisfies the relation and
\* its second does not
C17_Witness ==
    /\ jll = Op("<", Nums(<<1, 3, 2>>))
    /\ execOut.done
    /\ execOut.v = Bool(FALSE)

(***************************************************************************)
(* Variable paths: (var n k1 ... km) over inputs that bind x to a nested   *)
(* mapping, a number, an array, null, or not at all, read at the root and  *)
(* from inside a let that binds another name.                              *)
(***************************************************************************)
VarInputs ==
    <<Obj(<<"x">>, "x" :> Obj(<<"a">>, "a" :> Obj(<<"b">>, "b" :> Num(7)))),
      Obj(<<"x">>, "x" :> Obj(<<"a">>, "a" :> Null)),
      Obj(<<"x">>, "x" :> Num(5)),
      Obj(<<"x">>, "x" :> Null),
      Obj(<<"z">>, "z" :> Num(9))>>

VarCases ==
    {[n |-> n, keys |-> ks, nested |-> b, inp |-> i] :
        n \in {"x", "y"}, ks \in TuplesUpTo({"a", "b"}, 0, MaxLen),
        b \in BOOLEAN, i \in 1..Len(VarInputs)}

\* ["var", n, k1, ..., km], at the root or as the body of (let v 1 ...)
varProgram(c) ==
    LET read == Op("var", <<Str(c.n)>> \o [i \in 1..Len(c.keys) |-> Str(c.keys[i])])
    IN  IF c.nested THEN Op("let", <<Str("v"), Num(1), read>>) ELSE read

InitVarPath ==
    \E c \in VarCases : InitLogic({varProgram(c)}, {VarInputs[c.inp]}, BOOLEAN)
SpecVarPath == InitVarPath /\ [][NextLogic]_vars

\* value indexed by keys[index..]: null as soon as the value is null or lacks
\* the key
indexed(value, keys, index) ==
    IF IsNullish(value) THEN Null
    ELSE IF index > Len(keys) THEN value
    ELSE IF value.t = "obj" /\ keys[index] \in DOMAIN value.v
        THEN indexed(value.v[keys[index]], keys, index + 1)
    ELSE Null

\* the value of the path: n is bound by the input or nowhere
varOutcome(c) ==
    LET inp == VarInputs[c.inp]
    IN  IF c.n \in DOMAIN inp.v THEN indexed(inp.v[c.n], c.keys, 1) ELSE Null

\* C18: (var n k1 ... km) resolves n through the scope chain and indexes by
\* k1..km; when n is bound nowhere, or an intermediate value is null or lacks
\* the next key, the result is null and no error is raised; execLogic and
\* compileLogic + execByteCode return the same value for every m >= 0.
C18_VarPathNullOnMiss ==
    \A c \in VarCases :
        (sameJson(jll, varProgram(c)) /\ sameJson(input, VarInputs[c.inp])) =>
            /\ execOut.done => execOut.err = "" /\ sameJson(execOut.v, varOutcome(c))
            /\ compiled.done => compiled.err = ""
            /\ (vmOut.done /\ ~unmodelled(vmOut)) =>
                    vmOut.err = "" /\ sameJson(vmOut.v, varOutcome(c))

(***************************************************************************)
(* Argument frames: (arg N) at the top level, next to a temporary, in the  *)
(* body of a called closure, of a closure called by another closure, and   *)
(* of map's callback, for N up to one past the largest frame.              *)
(***************************************************************************)
MaxArgIndex == 4

ArgShapes == {"top", "temp", "call", "nested", "map"}

ArgCases == {[shape |-> s, N |-> N] : s \in ArgShapes, N \in 0..MaxArgIndex}

ArgInput == Obj(<<"x">>, "x" :> Num(5))

argProgram(c) ==
    LET read == Op("arg", <<Num(c.N)>>)
        f == Op("fn", <<read>>)
    IN  CASE c.shape = "top" -> read
          [] c.shape = "temp" -> Op("array", <<Num(5), read>>)
          [] c.shape = "call" -> Apply(f, <<Num(11), Num(12)>>)
          [] c.shape = "nested" ->
                Apply(Op("fn", <<Apply(f, <<Num(21)>>)>>), <<Num(11), Num(12)>>)
          [] OTHER -> Op("map", <<Op("array", <<Num(1), Num(2)>>), f>>)

InitArgFrame == \E c \in ArgCases : InitLogic({argProgram(c)}, {ArgInput}, BOOLEAN)
SpecArgFrame == InitArgFrame /\ [][NextLogic]_vars

\* position N of the frame <<receiver>> \o args, null past its end and for a
\* receiver that is not set
frameAt(args, N) == IF N >= 1 /\ N <= Len(args) THEN args[N] ELSE Null

argOutcome(c) ==
    CASE c.shape = "top" -> frameAt(<<ArgInput>>, c.N)
      [] c.shape = "temp" -> Arr(<<Num(5), frameAt(<<ArgInput>>, c.N)>>)
      [] c.shape = "call" -> frameAt(<<Num(11), Num(12)>>, c.N)
      [] c.shape = "nested" -> frameAt(<<Num(21)>>, c.N)
      [] OTHER ->
            LET items == <<Num(1), Num(2)>>
            IN  Arr([i \in 1..2 |-> frameAt(<<items[i], Num(i - 1), Arr(items)>>, c.N)])

\* C19: (arg N) reads position N of the argument frame of the innermost
\* enclosing function activation only: position 0 is the receiver (null at
\* the top level), positions 1..k are the k call arguments (the input mapping
\* at the top level), and for N > k the result is null, never a value of an
\* outer activation or a temporary of the current one, in execLogic and in
\* execByteCode.
C19_ArgReadsInnermostFrame ==
    \A c \in ArgCases :
        (sameJson(jll, argProgram(c))
            /\ (allowTuringComplete \/ c.shape \in {"top", "temp", "map"})) =>
            /\ execOut.done => execOut.err = "" /\ sameJson(execOut.v, argOutcome(c))
            /\ compiled.done => compiled.err = ""
            /\ (vmOut.done /\ ~unmodelled(vmOut)) =>
                    vmOut.err = "" /\ sameJson(vmOut.v, argOutcome(c))

(***************************************************************************)
(* Computed operators: a node whose first element is a node.  The operator *)
(* is a fn of two names applied to a number and a sum, and the test's      *)
(* fibonacci closure applied to itself and n.                              *)
(***************************************************************************)
MaxSelfFib == 2

ComputedBodies ==
    <<V("x"), V("y"), Op("array", <<V("x"), V("y")>>), Op("-", <<V("x"), V("y")>>)>>

ComputedCases ==
    {[shape |-> "apply", body |-> i, a |-> a, b |-> b] :
        i \in 1..Len(ComputedBodies), a \in Items, b \in Items}
    \cup {[shape |-> "fib", body |-> 0, a |-> n, b |-> 0] : n \in 0..MaxSelfFib}

\* const fib = ['fn', ['fib', 'n'], ['if', ['<', n, 2], n, ['+', [fib, fib, n - 1], [fib, fib, n - 2]]]]
fibSelf ==
    LET rec(k) == Arr(<<V("fib"), V("fib"), Op("-", <<V("n"), Num(k)>>)>>)
    IN  FnN(<<"fib", "n">>,
            Op("if", <<Op("<", <<V("n"), Num(2)>>), V("n"), Op("+", <<rec(1), rec(2)>>)>>))

computedProgram(c) ==
    IF c.shape = "fib" THEN Apply(fibSelf, <<fibSelf, Num(c.a)>>)
    ELSE Apply(FnN(<<"x", "y">>, ComputedBodies[c.body]),
               <<Num(c.a), Op("+", <<Num(c.b), Num(1)>>)>>)

InitComputed == \E c \in ComputedCases : InitLogic({computedProgram(c)}, {EmptyObj}, BOOLEAN)
SpecComputed == InitComputed /\ [][NextLogic]_vars

\* the closure's body on the values of the arguments
computedOutcome(c) ==
    CASE c.shape = "fib" -> Num(fibonacci(c.a))
      [] c.body = 1 -> Num(c.a)
      [] c.body = 2 -> Num(c.b + 1)
      [] c.body = 3 -> Arr(<<Num(c.a), Num(c.b + 1)>>)
      [] OTHER -> Num(c.a - (c.b + 1))

\* C20: for a node whose first element is itself a node, with
\* allowTuringComplete = true, the engine evaluates that element to a closure,
\* evaluates the remaining elements left to right as the call's arguments and
\* invokes the closure with them; execLogic and compileLogic + execByteCode
\* return the same result (the fibonacci closure applied to itself).
C20_ComputedOperatorCall ==
    \A c \in ComputedCases :
        (sameJson(jll, computedProgram(c)) /\ allowTuringComplete) =>
            /\ execOut.done => execOut.err = "" /\ sameJson(execOut.v, computedOutcome(c))
            /\ compiled.done => compiled.err = ""
            /\ (vmOut.done /\ ~unmodelled(vmOut)) =>
                    vmOut.err = "" /\ sameJson(vmOut.v, computedOutcome(c))

(***************************************************************************)
(* The folds: + and * applied to a1 ... an for n from none to MaxOperands, *)
(* the arguments numbers or true (which converts to 1).                    *)
(***************************************************************************)
FoldCases ==
    {[op |-> op, args |-> as] : op \in {"+", "*"}, as \in TuplesUpTo(1..3, 0, MaxOperands)}

\* the argument a case names by its number
foldArg(k) == IF k = 1 THEN Bool(TRUE) ELSE Num(k)

foldProgram(c) == Op(c.op, [i \in 1..Len(c.args) |-> foldArg(c.args[i])])

InitFold == \E c \in FoldCases : InitLogic({foldProgram(c)}, {Null}, BOOLEAN)
SpecFold == InitFold /\ [][NextLogic]_vars

\* the sum or product of ks[i..], true counting as 1
folded(op, ks, i) ==
    IF i > Len(ks) THEN (IF op = "+" THEN 0 ELSE 1)
    ELSE IF op = "+" THEN ks[i] + folded(op, ks, i + 1)
    ELSE ks[i] * folded(op, ks, i + 1)

\* C21: + and * are variadic folds with identity 0 and 1: for every number of
\* arguments n >= 0, + yields the sum (0 when n = 0) and * the product (1
\* when n = 0) of the arguments converted to numbers, and execLogic and
\* compileLogic + execByteCode return the same value.
C21_VariadicFolds ==
    \A c \in FoldCases :
        sameJson(jll, foldProgram(c)) =>
            /\ execOut.done =>
                    execOut.err = "" /\ sameJson(execOut.v, Num(folded(c.op, c.args, 1)))
            /\ compiled.done => compiled.err = ""
            /\ (vmOut.done /\ ~unmodelled(vmOut)) =>
                    vmOut.err = "" /\ sameJson(vmOut.v, Num(folded(c.op, c.args, 1)))

(***************************************************************************)
(* The sandbox in the bytecode path, over the programs of SpecSandbox and   *)
(* a few more.  execLogic's log tells whether an argument of a registry    *)
(* operation evaluated to a closure at a position not marked safe.         *)
(***************************************************************************)
\* further sandboxed programs: a closure next to a read past the frame, in
\* the taken branch of if, as the value of or, and in a callback's body
FrameAndBranchPrograms ==
    <<Op("id", <<OneFn, Op("array", <<Op("arg", <<Num(2)>>)>>)>>),
      Op("array", <<Num(1), Num(1), Op("if", <<Num(1), OneFn, Num(2)>>)>>),
      Op("array", <<Num(1), Op("or", <<Num(0), OneFn>>)>>),
      Op("map", <<Op("array", <<Num(1)>>), Fn0(Op("array", <<OneFn>>))>>)>>

InitVmSandbox ==
    \/ InitSandbox
    \/ \E i \in 1..Len(FrameAndBranchPrograms) :
            InitLogic({FrameAndBranchPrograms[i]}, {Null}, BOOLEAN)
SpecVmSandbox == InitVmSandbox /\ [][NextLogic]_vars

foundFunction(out) ==
    out.err = "TypeError" /\ out.msg = "found function where there cannot be one"

\* the evaluation met a closure at an unsafe argument position
unsafeArgMet(log) == \E k \in 1..Len(log) : unsafeClosureArg(log[k])

\* AssertNotFunction occurs in the code
asserts(code) == \E i \in 1..Len(code) : code[i] = Num(AssertNotFunction)

\* C22: in sandboxed mode the bytecode path enforces the closure restriction
\* of the evaluator: for a program in which an argument of a registry
\* operation evaluates to a closure at a position not marked safe,
\* execByteCode raises the TypeError before the operation is called, and for
\* a program without such an argument it raises no sandbox error; with
\* allowTuringComplete = true compileLogic emits no AssertNotFunction.
C22_BytecodeSandbox ==
    /\ (compiled.done /\ compiled.err = "" /\ allowTuringComplete) => ~asserts(compiled.code)
    /\ (~allowTuringComplete /\ execOut.done /\ vmOut.done) =>
            IF unsafeArgMet(execOut.log)
            THEN foundFunction(vmOut) /\ vmOut.log = <<>>
            ELSE ~foundFunction(vmOut)

(***************************************************************************)
(* Computed operators in sandboxed mode: partial whose first argument is a *)
(* node, and nodes whose tag is a node or a function, each as the whole    *)
(* program and after an argument of array.                                 *)
(***************************************************************************)
ComputedPartials ==
    <<Op("partial", <<OneFn>>),
      Op("partial", <<OneFn, Num(5)>>),
      Op("partial", <<Op("partial", <<Str("id")>>), Num(5)>>)>>

ComputedTags ==
    <<Arr(<<OneFn>>),
      Arr(<<OneFn, Num(2)>>),
      Arr(<<Builtin("id"), Num(2)>>)>>

GateCases ==
    {[kind |-> k, i |-> i, nested |-> b] : k \in {"partial", "tag"}, i \in 1..3, b \in BOOLEAN}

gateProgram(c) ==
    LET node == IF c.kind = "partial" THEN ComputedPartials[c.i] ELSE ComputedTags[c.i]
    IN  IF c.nested THEN Op("array", <<Num(1), node>>) ELSE node

InitGate == \E c \in GateCases : InitLogic({gateProgram(c)}, {Null, EmptyObj}, BOOLEAN)
SpecGate == InitGate /\ [][NextLogic]_vars

illegalInstruction(out) ==
    out.err = "TypeError" /\ out.msg = "illegal instruction when allowTuringComplete=false"

\* C23: partial whose first argument is an operation node is rejected with a
\* TypeError when allowTuringComplete = false, by execLogic when the node is
\* evaluated and by compileLogic at compile time, and is accepted by both
\* when allowTuringComplete = true; an operation whose tag is an operation
\* node or a closure is rejected with TypeError by both in sandboxed mode.
C23_ComputedOperatorGate ==
    \A c \in GateCases :
        sameJson(jll, gateProgram(c)) =>
            IF ~allowTuringComplete
            THEN /\ execOut.done => illegalInstruction(execOut)
                 /\ compiled.done => illegalInstruction(compiled)
            ELSE c.kind = "partial" =>
                    /\ execOut.done => execOut.err = ""
                    /\ compiled.done => compiled.err = ""

(***************************************************************************)
(* Source texts for parseLogic, written as sequences of words: spell gives *)
(* the characters of a word and text joins the words with blanks.          *)
(***************************************************************************)
spell(word) ==
    CASE word = "var" -> <<"v", "a", "r">>
      [] word = "arg" -> <<"a", "r", "g">>
      [] word = "fn" -> <<"f", "n">>
      [] word = "id" -> <<"i", "d">>
      [] word = "let" -> <<"l", "e", "t">>
      [] word = "null" -> <<"n", "u", "l", "l">>
      [] word = "true" -> <<"t", "r", "u", "e">>
      [] word = "partial" -> <<"p", "a", "r", "t", "i", "a", "l">>
      [] word = "\"a\"" -> <<"\"", "a", "\"">>
      [] word = "\"a" -> <<"\"", "a">>
      [] word = "@)" -> <<"@", ")">>
      [] OTHER -> <<word>>

text(words) ==
    IF Len(words) = 0 THEN <<>>
    ELSE spell(words[1]) \o (IF Len(words) = 1 THEN <<>> ELSE <<" ">> \o text(Tail(words)))

(***************************************************************************)
(* Bare identifiers: a name n as the whole program, as an array element,   *)
(* a call argument, an object value and the body of fn, and in the places  *)
(* where it stays a string.                                                *)
(***************************************************************************)
IdentNames == {"x", "y", "b"}

IdentShapes ==
    {"whole", "element", "argument", "value", "body", "param", "var", "arg",
     "partial", "bound", "key", "nested"}

IdentCases == {[shape |-> s, n |-> n] : s \in IdentShapes, n \in IdentNames}

identWords(c) ==
    CASE c.shape = "whole" -> <<c.n>>
      [] c.shape = "element" -> <<"[", "1", c.n, "]">>
      [] c.shape = "argument" -> <<"(", "id", c.n, ")">>
      [] c.shape = "value" -> <<"{", "a", ":", c.n, "}">>
      [] c.shape = "body" -> <<"(", "fn", c.n, ")">>
      [] c.shape = "param" -> <<"(", "fn", c.n, "a", "1", ")">>
      [] c.shape = "var" -> <<"(", "var", c.n, "a", ")">>
      [] c.shape = "arg" -> <<"(", "arg", "1", c.n, ")">>
      [] c.shape = "partial" -> <<"(", "partial", c.n, ")">>
      [] c.shape = "bound" -> <<"(", "partial", "id", c.n, ")">>
      [] c.shape = "key" -> <<"{", c.n, ":", "1", "}">>
      [] OTHER -> <<"(", "id", "[", c.n, "]", "(", "fn", "a", c.n, ")", ")">>

\* the Logic Value the text denotes, with ["var", n] for n in a value position
identValue(c) ==
    CASE c.shape = "whole" -> V(c.n)
      [] c.shape = "element" -> Op("array", <<Num(1), V(c.n)>>)
      [] c.shape = "argument" -> Op("id", <<V(c.n)>>)
      [] c.shape = "value" -> Obj(<<"a">>, "a" :> V(c.n))
      [] c.shape = "body" -> Op("fn", <<Arr(<<>>), V(c.n)>>)
      [] c.shape = "param" -> Op("fn", <<Arr(<<Str(c.n), Str("a")>>), Num(1)>>)
      [] c.shape = "var" -> Op("var", <<Str(c.n), Str("a")>>)
      [] c.shape = "arg" -> Op("arg", <<Num(1), Str(c.n)>>)
      [] c.shape = "partial" -> Op("partial", <<Str(c.n)>>)
      [] c.shape = "bound" -> Op("partial", <<Str("id"), V(c.n)>>)
      [] c.shape = "key" -> Obj(<<c.n>>, c.n :> Num(1))
      [] OTHER -> Op("id", <<Op("array", <<V(c.n)>>),
                             Op("fn", <<Arr(<<Str("a")>>), V(c.n)>>)>>)

InitIdent == \E c \in IdentCases : InitSource({text(identWords(c))}, {Null}, BOOLEAN)
SpecIdent == InitIdent /\ [][Next]_vars

\* C24: parseLogic turns every bare non-keyword identifier that stands in a
\* value position (the whole program, an array element, a call argument, an
\* object value, the body of fn) into ["var", identifier]; the identifiers
\* following var or arg, the first identifier after partial, the leading
\* identifiers of fn and object keys stay strings.
C24_BareIdentifierIsVar ==
    \A c \in IdentCases :
        (src = text(identWords(c)) /\ parseOut.done) =>
            parseOut.err = "" /\ sameJson(parseOut.v, identValue(c))

(***************************************************************************)
(* Characters outside every token: a stray @ or a string without its       *)
(* closing quote, put before any word of a well-formed text.               *)
(***************************************************************************)
WellFormed ==
    <<<<"1">>,
      <<"(", "id", "1", ")">>,
      <<"[", "1", "2", "]">>,
      <<"(", "id", "\"a\"", ")">>>>

Strays == {"@", "\"a"}

StrayCases ==
    {[base |-> b, stray |-> s, at |-> k] :
        b \in 1..Len(WellFormed), s \in Strays, k \in 0..MaxStrayAt}

\* the words of the base with the stray one after the first at words
strayWords(c) ==
    LET words == WellFormed[c.base]
        k == IF c.at > Len(words) THEN Len(words) ELSE c.at
    IN  SubSeq(words, 1, k) \o <<c.stray>> \o SubSeq(words, k + 1, Len(words))

InitStray ==
    \/ \E c \in StrayCases : InitSource({text(strayWords(c))}, {Null}, BOOLEAN)
    \/ \E b \in 1..Len(WellFormed) : InitSource({text(WellFormed[b])}, {Null}, BOOLEAN)
SpecStray == InitStray /\ [][Next]_vars

\* C25: parseLogic raises a syntax error for every input that contains a
\* character sequence belonging to no token (a stray @, a string literal
\* whose closing quote is missing); it skips no input characters other than
\* whitespace and comments.
C25_NoSkippedCharacters ==
    \A c \in StrayCases :
        (src = text(strayWords(c)) /\ parseOut.done) => parseOut.err = "SyntaxError"

(***************************************************************************)
(* Bracket structure: every text of up to MaxTokens words over brackets,   *)
(* the colon, a number and fn.                                             *)
(***************************************************************************)
MaxTokens == 4

BracketWords == {"(", ")", "[", "]", "{", "}", ":", "1", "fn"}

BracketTexts == TuplesUpTo(BracketWords, 1, MaxTokens)

InitBracket == InitSource({text(ws) : ws \in BracketTexts}, {Null}, {FALSE})
SpecBracket == InitBracket /\ [][Next]_vars

\* an open bracket b holding n items; in a mapping, phase 0 awaits a key or
\* the closing brace, 1 the colon, 2 the value
Open(b, n, phase) == [b |-> b, n |-> n, phase |-> phase]

closerOf(b) == CASE b = "(" -> ")" [] b = "[" -> "]" [] OTHER -> "}"

\* the words from the i-th on form, after the open brackets and the tops
\* complete top-level values read so far, exactly one complete value
oneValue(words, i, open, tops) ==
    LET n == Len(open)
        top == open[n]
        \* a complete value arrives in the innermost open bracket
        value(rest) ==
            IF Len(rest) = 0 THEN oneValue(words, i + 1, rest, tops + 1)
            ELSE LET m == Len(rest)
                 IN  IF rest[m].b = "{"
                     THEN /\ rest[m].phase # 1
                          /\ oneValue(words, i + 1,
                                      [rest EXCEPT ![m].phase = IF @ = 0 THEN 1 ELSE 0], tops)
                     ELSE oneValue(words, i + 1, [rest EXCEPT ![m].n = @ + 1], tops)
    IN  IF i > Len(words) THEN n = 0 /\ tops = 1
        ELSE CASE words[i] \in {"(", "[", "{"} ->
                    oneValue(words, i + 1, Append(open, Open(words[i], 0, 0)), tops)
               [] words[i] \in {")", "]", "}"} ->
                    /\ n > 0
                    /\ closerOf(top.b) = words[i]
                    /\ words[i] = ")" => top.n > 0
                    /\ words[i] = "}" => top.phase = 0
                    /\ value(SubSeq(open, 1, n - 1))
               [] words[i] = ":" ->
                    /\ n > 0
                    /\ top.b = "{"
                    /\ top.phase = 1
                    /\ oneValue(words, i + 1, [open EXCEPT ![n].phase = 2], tops)
               [] OTHER -> value(open)

\* the first characters of the words of a text whose words are separated by
\* single blanks: a bracket or the colon, or the start of a number or name
wordsOf(source, i) ==
    IF i > Len(source) THEN <<>>
    ELSE IF source[i] # " " /\ (i = 1 \/ source[i - 1] = " ")
        THEN <<source[i]>> \o wordsOf(source, i + 1)
    ELSE wordsOf(source, i + 1)

\* C26: parseLogic returns a value only when the token stream forms exactly
\* one complete value: each closing bracket matches the most recently opened
\* unclosed one (a closing brace only after a complete key/value pair or
\* directly after the opening brace), () is rejected, and an empty input, an
\* unclosed bracket or a second top-level value each raise a syntax error.
C26_OneCompleteValue ==
    /\ parseLogic(<<>>).err = "SyntaxError"
    /\ (parseOut.done /\ parseOut.err = "") => oneValue(wordsOf(src, 1), 1, <<>>, 0)
    /\ (parseOut.done /\ ~oneValue(wordsOf(src, 1), 1, <<>>, 0)) => parseOut.err = "SyntaxError"

\* an array in an array has been returned: each bracket closed in turn
C26_Witness ==
    /\ src = text(<<"[", "[", "]", "]">>)
    /\ parseOut.done
    /\ parseOut.err = ""

(***************************************************************************)
(* let forms in source text: the first argument of the 2-argument form and *)
(* the binding target of the 3-argument form range over literals, names,   *)
(* var nodes, calls, arrays and mappings; the other argument counts.       *)
(***************************************************************************)
\* a first argument as written, the Logic Value it denotes, and whether it is
\* a primitive literal, and whether it names a variable
LetFirsts ==
    <<[words |-> <<"null">>, v |-> Null, primitive |-> TRUE, name |-> ""],
      [words |-> <<"true">>, v |-> Bool(TRUE), primitive |-> TRUE, name |-> ""],
      [words |-> <<"1">>, v |-> Num(1), primitive |-> TRUE, name |-> ""],
      [words |-> <<"\"a\"">>, v |-> Str("a"), primitive |-> TRUE, name |-> ""],
      [words |-> <<"{", "}">>, v |-> EmptyObj, primitive |-> FALSE, name |-> ""],
      [words |-> <<"[", "1", "]">>, v |-> Op("array", <<Num(1)>>),
       primitive |-> FALSE, name |-> ""],
      [words |-> <<"(", "id", "1", ")">>, v |-> Op("id", <<Num(1)>>),
       primitive |-> FALSE, name |-> ""],
      [words |-> <<"(", "var", "x", "a", ")">>, v |-> Op("var", <<Str("x"), Str("a")>>),
       primitive |-> FALSE, name |-> ""],
      [words |-> <<"x">>, v |-> V("x"), primitive |-> FALSE, name |-> "x"],
      [words |-> <<"(", "var", "y", ")">>, v |-> V("y"), primitive |-> FALSE, name |-> "y"]>>

LetFormCases ==
    {[first |-> i, argc |-> n] : i \in 1..Len(LetFirsts), n \in 0..MaxLetArgs}

\* (let first 1 ... 1) with argc arguments in all; (let) for none
letFormWords(c) ==
    <<"(", "let">>
    \o (IF c.argc = 0 THEN <<>> ELSE LetFirsts[c.first].words)
    \o [i \in 1..(c.argc - 1) |-> "1"]
    \o <<")">>

InitLetForm == \E c \in LetFormCases : InitSource({text(letFormWords(c))}, {Null}, BOOLEAN)
SpecLetForm == InitLetForm /\ [][Next]_vars

\* whether the form is one the validation lets through
letFormValid(c) ==
    CASE c.argc = 2 -> ~LetFirsts[c.first].primitive
      [] c.argc = 3 -> LetFirsts[c.first].name # ""
      [] OTHER -> FALSE

\* the Logic Value of a valid form: the target of the 3-argument form is the
\* bare name
letFormValue(c) ==
    IF c.argc = 2 THEN Op("let", <<LetFirsts[c.first].v, Num(1)>>)
    ELSE Op("let", <<Str(LetFirsts[c.first].name), Num(1), Num(1)>>)

\* C27: parseLogic validates every let form when its closing parenthesis is
\* read: a 2-argument let whose first argument is a primitive literal (null,
\* boolean, number or string) is rejected; a 3-argument let is accepted only
\* if its target is a bare name or a (var name) node, normalized to the bare
\* string, and rejected for any other target such as a call or an array
\* expression; any other argument count is rejected.
C27_LetValidation ==
    \A c \in LetFormCases :
        (src = text(letFormWords(c)) /\ parseOut.done) =>
            IF letFormValid(c)
            THEN parseOut.err = "" /\ sameJson(parseOut.v, letFormValue(c))
            ELSE parseOut.err = "SyntaxError"

(***************************************************************************)
(* Error positions: every text of up to MaxErrTokens words over the        *)
(* parentheses, a number, a closing bracket, a line break, a stray @ and a *)
(* stray @ directly before a closing parenthesis.                          *)
(***************************************************************************)
MaxErrTokens == 4

ErrWords == {"(", ")", "1", "]", "\n", "@", "@)"}

InitErrPos ==
    InitSource({text(ws) : ws \in TuplesUpTo(ErrWords, 1, MaxErrTokens)}, {Null}, {FALSE})
SpecErrPos == InitErrPos /\ [][Next]_vars

\* the line breaks before offset index, and the offset after the last of them
breaksBefore(source, index) == {k \in 1..index : source[k] = "\n"}
lineStartOf(source, index) ==
    IF breaksBefore(source, index) = {} THEN 0
    ELSE CHOOSE k \in breaksBefore(source, index) : \A j \in breaksBefore(source, index) : j <= k

\* C28: every syntax error raised by parseLogic carries index equal to the
\* offset where the offending token starts (or the end of input), lineno
\* equal to 1 plus the number of newlines before that offset, and column
\* equal to the number of characters between the last preceding newline (or
\* the start of input) and that offset.
C28_ErrorPosition ==
    (parseOut.done /\ parseOut.err # "") =>
        /\ parseOut.index = parseOut.matchIndex
        /\ parseOut.lineno = 1 + Cardinality(breaksBefore(src, parseOut.matchIndex))
        /\ parseOut.column = parseOut.matchIndex - lineStartOf(src, parseOut.matchIndex)

(***************************************************************************)
(* Host operations: options.operations with up to MaxHostOps keys drawn    *)
(* from a built-in's name, a new name, a reserved word, and keys that are  *)
(* no identifier, around calls of these names.                             *)
(***************************************************************************)
MaxHostOps == 2

HostKeys == {"id", "f", "let", "x-y", "f 1", "1x"}

\* the keys that are in their entirety a letter followed by letters, digits
\* or underscores
WholeIdentifiers == {"id", "f", "let"}

HostSets == {h \in SUBSET HostKeys : Cardinality(h) <= MaxHostOps}

HostCalls == {Op(name, <<Num(1)>>) : name \in {"id", "f", "x-y"}}

InitHost ==
    /\ src = <<>>
    /\ parseOut = NotRun
    /\ jll \in HostCalls
    /\ input = Null
    /\ allowTuringComplete \in BOOLEAN
    /\ operations \in HostSets
    /\ execOut = NotRun
    /\ compiled = NotRun
    /\ vmOut = NotRun
    /\ given = input
    /\ runs = 0
SpecHost == InitHost /\ [][NextLogic]_vars

\* a key that the registry setup has to refuse
refusedKey(name) == name \in KEYWORDS \/ name \notin WholeIdentifiers

invalidName(out) == out.err = "Error" /\ out.msg = "not a valid operation name"

\* C29: execLogic and compileLogic reject a host-supplied operations mapping,
\* before evaluating or compiling anything, whenever one of its keys is a
\* reserved word or is not in its entirety an identifier; valid keys override
\* built-ins of the same name.
C29_HostOperationNames ==
    IF \E name \in operations : refusedKey(name)
    THEN /\ execOut.done => (invalidName(execOut) /\ execOut.log = <<>>)
         /\ compiled.done => (invalidName(compiled) /\ compiled.code = <<>>)
    ELSE /\ execOut.done =>
                /\ ~invalidName(execOut)
                /\ (jll.v[1].v \in operations) =>
                        (execOut.err = "" /\ execOut.v = HostResult)
         /\ compiled.done => ~invalidName(compiled)
         /\ (vmOut.done /\ jll.v[1].v \in operations) =>
                (vmOut.err = "" /\ vmOut.v = HostResult)

(***************************************************************************)
(* Calls of an operation by name, the name in the registry (id) or absent  *)
(* from it (nosuch, and toString, which a registry with a prototype would  *)
(* hold), the arguments calls of print, the call put where it is evaluated *)
(* and where it is not.                                                    *)
(***************************************************************************)
MaxNamedArgs == 1

NamedTags == {"id", "nosuch", "toString"}

\* where the evaluator reaches the call, and where it does not
ReachedPlaces == {"whole", "argument", "then", "and", "callback", "computed"}
SkippedPlaces == {"else", "wholeElse", "or", "body"}
\* places that need allowTuringComplete
ClosurePlaces == {"callback", "computed", "body"}

NamedCases ==
    [tag : NamedTags, argc : 0..MaxNamedArgs, place : ReachedPlaces \cup SkippedPlaces]

namedCall(c) == Op(c.tag, [i \in 1..c.argc |-> Op("print", <<Num(i)>>)])

namedProgram(c) ==
    LET node == namedCall(c)
    IN  CASE c.place = "whole" -> node
          [] c.place = "argument" -> Op("array", <<Num(1), node>>)
          [] c.place = "then" ->
                Op("array", <<Num(1), Num(1), Op("if", <<Num(1), node, Num(2)>>)>>)
          [] c.place = "else" ->
                Op("array", <<Num(1), Num(1), Op("if", <<Num(1), Num(2), node>>)>>)
          [] c.place = "wholeElse" -> Op("if", <<Num(1), Num(2), node>>)
          [] c.place = "and" -> Op("array", <<Num(1), Op("and", <<Num(1), node>>)>>)
          [] c.place = "or" -> Op("array", <<Num(1), Op("or", <<Num(1), node>>)>>)
          [] c.place = "body" -> Fn0(node)
          [] c.place = "callback" -> Op("map", <<Op("array", <<Num(1)>>), Fn0(node)>>)
          [] c.place = "computed" -> Arr(<<OneFn, node>>)

\* the position of the call in the program
namedPath(c) ==
    CASE c.place = "whole" -> <<>>
      [] c.place = "argument" -> <<2>>
      [] c.place = "then" -> <<3, 2>>
      [] c.place = "else" -> <<3, 3>>
      [] c.place = "wholeElse" -> <<3>>
      [] c.place \in {"and", "or"} -> <<2, 2>>
      [] c.place = "body" -> <<1>>
      [] c.place = "callback" -> <<2, 1>>
      [] c.place = "computed" -> <<1>>

InitNamed == \E c \in NamedCases : InitLogic({namedProgram(c)}, {Null}, BOOLEAN)
SpecNamed == InitNamed /\ [][NextLogic]_vars

notDefined(out) == out.err = "ReferenceError" /\ out.msg = "function is not defined"

\* the evaluation stopped on entering the node at path: nothing was evaluated
\* after it
stoppedAt(log, path) ==
    /\ log # <<>>
    /\ log[Len(log)].e = "eval"
    /\ log[Len(log)].p = path

\* C30: an operation whose tag is a name absent from the registry raises a
\* ReferenceError: compileLogic raises it for such a node anywhere in the
\* program, also in a branch that never executes, while execLogic raises it
\* only when the node is evaluated, and then before any of the node's
\* arguments is evaluated.
C30_UndefinedOperation ==
    \A c \in NamedCases :
        (/\ sameJson(jll, namedProgram(c))
         /\ c.place \in ClosurePlaces => allowTuringComplete) =>
            /\ compiled.done => (notDefined(compiled) <=> c.tag \notin BUILTINS)
            /\ execOut.done =>
                    IF c.tag \notin BUILTINS /\ c.place \in ReachedPlaces
                    THEN notDefined(execOut) /\ stoppedAt(execOut.log, namedPath(c))
                    ELSE execOut.err = ""

(***************************************************************************)
(* Repeated calls.  The host makes the calls again, with the same Logic    *)
(* Value, the same input object and the same compiled code, with or        *)
(* without an overlay of host operations.  given holds the input as the    *)
(* host first supplied it.                                                 *)
(***************************************************************************)
MaxRuns == 2

Overlays == {{}, {"id"}}

Again ==
    /\ runs < MaxRuns
    /\ execOut.done \/ vmOut.done
    /\ runs' = runs + 1
    /\ execOut' = NotRun
    /\ vmOut' = NotRun
    /\ operations' \in Overlays
    /\ UNCHANGED <<src, jll, input, allowTuringComplete, parseOut, compiled, given>>

NextRepeat == ExecLogic \/ CompileLogic \/ ExecByteCode \/ Again

YZ == Obj(<<"y", "z">>, ("y" :> Num(5)) @@ ("z" :> Num(7)))

\* programs that bind names, call closures, build values and raise
RepeatPrograms ==
    <<Let3("y", Num(1), V("y")),
      Let3("y", Num(1), Op("if", <<Num(0), Num(1), Op("!", <<V("y")>>)>>)),
      Let3("y", Op("!", <<V("y")>>), Op("if", <<Num(0), Num(1), V("y")>>)),
      Op("let", <<Obj(<<"y">>, "y" :> Num(1)), V("y")>>),
      Op("map", <<Op("array", <<V("y"), V("z")>>), FnN(<<"y">>, V("y"))>>),
      Op("id", <<Obj(<<"x">>, "x" :> V("y"))>>),
      Op("array", <<V("y"), Op("nosuch", <<>>)>>)>>

InitRepeat ==
    \E i \in 1..Len(RepeatPrograms) :
        InitLogic({RepeatPrograms[i]}, {Null, YZ}, BOOLEAN)

SpecRepeat == InitRepeat /\ [][NextRepeat]_vars

sameOutcome(a, b) ==
    /\ a.err = b.err
    /\ a.msg = b.msg
    /\ (IsFunction(a.v) /\ IsFunction(b.v)) \/ sameJson(a.v, b.v)

\* C31: neither engine writes to the Logic Value, to the host's input
\* object, to the compiled code or to the shared tables: after any sequence
\* of execLogic, compileLogic and execByteCode calls, with or without host
\* operations and whether or not a call raised, these are unchanged, and a
\* repeated call yields what the first call on the input as given yields.
C31_NoWrites ==
    /\ [](/\ sameJson(input, given)
          /\ execOut.done =>
                sameOutcome(execOut, execLogic(jll, given, allowTuringComplete, operations))
          /\ vmOut.done =>
                sameOutcome(vmOut, execByteCode(compiled.code, operations, given)))
    /\ [][jll' = jll /\ (compiled.done => compiled' = compiled)]_vars

(***************************************************************************)
(* The instruction stream as the stack machine decodes it: an instruction  *)
(* word, then its operand word if it takes one.  The programs hold if,     *)
(* and, or, ?? and fn, as the whole program, after other code, twice in a  *)
(* row and inside the body of a closure.                                   *)
(***************************************************************************)
MaxJumpArgs == 3

Jumps == {Jmp, JmpIfTrue, JmpIfFalse, JmpIfNull, JmpIfNotNull}
\* the instructions that read code[instrPtr ++] once more
WithOperand ==
    {Push, SetVar, GetVar, GetArg, GetItem, Closure, Partial, Call} \cup Jumps

JumpKinds == {"if", "and", "or", "??", "fn"}
JumpPlaces == {"whole", "array", "twice", "body"}
JumpCases == [kind : JumpKinds, n : 1..MaxJumpArgs, place : JumpPlaces]

RECURSIVE nested(_, _)
\* fn around fn, n deep
nested(n, body) == IF n = 0 THEN body ELSE Fn0(nested(n - 1, body))

jumpForm(c) ==
    CASE c.kind = "if" -> Op("if", [i \in 1..(c.n + 1) |-> Num(i % 2)])
      [] c.kind = "fn" -> nested(c.n, Num(1))
      [] OTHER -> Op(c.kind, [i \in 1..c.n |-> Num(i - 1)])

jumpProgram(c) ==
    CASE c.place = "whole" -> jumpForm(c)
      [] c.place = "array" -> Place("array", jumpForm(c))
      [] c.place = "twice" -> Op("array", <<Num(1), jumpForm(c), jumpForm(c)>>)
      [] c.place = "body" -> Fn0(Place("array", jumpForm(c)))

InitJump == \E c \in JumpCases : InitLogic({jumpProgram(c)}, {Null}, BOOLEAN)
SpecJump == InitJump /\ [][NextLogic]_vars

RECURSIVE decode(_, _)
\* the offsets of the instruction words from offset i on
decode(code, i) ==
    IF i >= Len(code) THEN {}
    ELSE {i} \cup decode(code, IF code[i + 1].t = "num" /\ code[i + 1].v \in WithOperand
                               THEN i + 2 ELSE i + 1)

\* the word at offset i is this instruction
isInstr(code, i, instr) == code[i + 1].t = "num" /\ code[i + 1].v = instr

\* the operand at offset i + 1 is the offset of an instruction, or the offset
\* just past the last one
resolved(code, i) ==
    /\ code[i + 2].t = "num"
    /\ code[i + 2].v \in decode(code, 0) \cup {Len(code)}

\* C32: after compileLogic returns, every operand of Jmp, JmpIfTrue,
\* JmpIfFalse, JmpIfNull, JmpIfNotNull and Closure is the offset of an
\* instruction of the code (or the offset just past a form's last
\* instruction); no placeholder -1 remains, patching overwrote no word other
\* than a placeholder, and each Closure operand is the start of that fn's own
\* body, which is emitted after the main program's Return and ends with
\* Return.
C32_JumpTargetsResolved ==
    (compiled.done /\ compiled.err = "") =>
        LET code == compiled.code
        IN  /\ \A i \in decode(code, 0) :
                    (\E instr \in Jumps \cup {Closure} : isInstr(code, i, instr)) =>
                        resolved(code, i)
            /\ \A k \in 1..Len(compiled.writes) : compiled.writes[k] = Num(-1)
            /\ Len(compiled.starts) = Len(compiled.refs)
            /\ \A k \in 1..Len(compiled.refs) :
                    /\ \A r \in 1..Len(compiled.refs[k]) :
                            /\ isInstr(code, compiled.refs[k][r] - 1, Closure)
                            /\ code[compiled.refs[k][r] + 1] = Num(compiled.starts[k])
                    /\ compiled.starts[k] > 0
                    /\ isInstr(code, compiled.starts[k] - 1, Return)
            /\ isInstr(code, Len(code) - 1, Return)

(***************************************************************************)
(* The operand stack.  A form is compiled between two literals as the      *)
(* arguments of array: Call takes the three topmost slots below the        *)
(* operator, so the result is [7, value, 8] exactly when the code of the   *)
(* form left one slot more than it found, its value in it, and the slot    *)
(* below as it was.                                                        *)
(***************************************************************************)
MaxBalanceArgs == 2

\* forms of every kind of node, with 0..MaxBalanceArgs arguments where the
\* operation is variadic
BalanceForms ==
    <<Num(1), V("y"), Op("var", <<Str("v"), Str("k")>>), Op("arg", <<Num(1), Str("y")>>),
      Obj(<<"k">>, "k" :> V("y")), Fn0(Num(1)),
      Let3("x", Num(1), V("x")), Op("let", <<Obj(<<"x">>, "x" :> Num(1)), V("x")>>),
      Op("array", <<Num(1), Op("if", <<Num(0), Num(1), Num(2)>>)>>),
      Op("array", <<Num(1), Op("if", <<Num(0), Num(1)>>)>>),
      Op("map", <<Op("array", <<Num(1)>>), Fn0(Op("arg", <<Num(1)>>))>>),
      Op("!", <<Num(1)>>), Op("-", <<Num(2), Num(1)>>),
      Arr(<<OneFn, Num(5)>>), Arr(<<Op("partial", <<Str("array"), Num(1)>>), Num(5)>>)>>
    \o [i \in 1..(MaxBalanceArgs + 1) |-> Op("+", [k \in 1..(i - 1) |-> Num(k)])]
    \o [i \in 1..(MaxBalanceArgs + 1) |-> Op("*", [k \in 1..(i - 1) |-> Num(k + 1)])]
    \o [i \in 1..(MaxBalanceArgs + 1) |-> Op("array", [k \in 1..(i - 1) |-> Num(k)])]
    \o [i \in 1..MaxBalanceArgs |-> Op("and", [k \in 1..i |-> Num(k)])]
    \o [i \in 1..MaxBalanceArgs |-> Op("or", [k \in 1..i |-> Num(k - 1)])]
    \o [i \in 1..MaxBalanceArgs |-> Op("??", [k \in 1..i |-> IF k = 1 THEN Null ELSE Num(k)])]

between(form) == Op("array", <<Num(7), form, Num(8)>>)

BalanceInput == Obj(<<"y", "v">>, ("y" :> Num(5)) @@ ("v" :> Obj(<<"k">>, "k" :> Num(6))))

InitBalance ==
    \E i \in 1..Len(BalanceForms) :
        InitLogic({between(BalanceForms[i])}, {BalanceInput}, BOOLEAN)
SpecBalance == InitBalance /\ [][NextLogic]_vars

\* the value execLogic gives the form
valueOf(form) == execLogic(form, BalanceInput, allowTuringComplete, {}).v

\* the stack pointer after the Return of the main program, which takes
\* argc + 3 = 5 slots off a stack that holds null, the scope and the result
returned == -3

\* C33: for every sub-expression of an accepted program, the instructions
\* compileLogic emitted for it leave the stack pointer exactly one above its
\* value before the sub-expression started, with the sub-expression's value
\* on top and all slots below unchanged.
C33_OperandStackBalance ==
    \A i \in 1..Len(BalanceForms) :
        (/\ sameJson(jll, between(BalanceForms[i]))
         /\ vmOut.done
         /\ vmOut.err = "") =>
            /\ vmOut.stackPtr = returned
            /\ vmOut.v.t = "arr"
            /\ Len(vmOut.v.v) = 3
            /\ sameJson(vmOut.v.v[1], Num(7))
            /\ sameJson(vmOut.v.v[3], Num(8))
            /\ \/ IsFunction(vmOut.v.v[2])
               \/ sameJson(vmOut.v.v[2], valueOf(BalanceForms[i]))

(***************************************************************************)
(* Calls of compiled closures: by Call, by map, reduce and filter, and     *)
(* from inside the body of another closure.                                *)
(***************************************************************************)
\* bodies of the called closure
FrameBodies ==
    <<Num(1), Op("arg", <<Num(1)>>), Op("+", <<Op("arg", <<Num(1)>>), Num(1)>>),
      Let3("x", Op("arg", <<Num(1)>>), V("x")), Op("and", <<Op("arg", <<Num(1)>>), Num(2)>>),
      Op("array", <<>>), Op("*", <<>>), Op("+", <<>>)>>

FrameCallers == {"call", "map", "filter", "reduce", "nested"}
FrameCases == [body : 1..Len(FrameBodies), by : FrameCallers]

frameProgram(c) ==
    LET f == Fn0(FrameBodies[c.body])
        items == Op("array", <<Num(1), Num(2)>>)
    IN  CASE c.by = "call" -> Op("array", <<Num(7), Arr(<<f>>)>>)
          [] c.by = "reduce" -> Op("reduce", <<items, f, Num(0)>>)
          [] c.by = "nested" -> Op("map", <<items, Fn0(Op("map", <<items, f>>))>>)
          [] OTHER -> Op(c.by, <<items, f>>)

InitFrame == \E c \in FrameCases : InitLogic({frameProgram(c)}, {Null}, BOOLEAN)
SpecFrame == InitFrame /\ [][NextLogic]_vars

\* the entry that the return logged at k belongs to: the last one before k at
\* the same depth
entryOf(log, k) ==
    CHOOSE j \in 1..(k - 1) :
        /\ log[j].e = "invoke" /\ log[j].i = log[k].i
        /\ \A m \in (j + 1)..(k - 1) : ~(log[m].e = "invoke" /\ log[m].i = log[k].i)

\* C34: invoking a compiled closure saves the caller's argc, instrPtr and
\* framePtr on the stack, and when the closure's Return has executed, argc,
\* instrPtr and framePtr hold the caller's values again and the stack
\* pointer equals its value just before the invocation, for any nesting
\* depth of closure calls (calls made through map, reduce and filter
\* included).
C34_CallFrameProtocol ==
    vmOut.done =>
        \A k \in 1..Len(vmOut.log) :
            vmOut.log[k].e = "return" => vmOut.log[k].p = vmOut.log[entryOf(vmOut.log, k)].p

(***************************************************************************)
(* Calls of registry operations with one closure among the arguments, the  *)
(* other arguments calls of print, whose evaluation the log shows.         *)
(***************************************************************************)
MaxOrderArgs == 3

OrderOps == {"array", "id", "map", "reduce"}
OrderCases ==
    {c \in [op : OrderOps, n : 1..MaxOrderArgs, at : 1..MaxOrderArgs] : c.at <= c.n}

orderProgram(c) ==
    Op(c.op, [j \in 1..c.n |-> IF j = c.at THEN OneFn ELSE Op("print", <<Num(j)>>)])

InitOrder == \E c \in OrderCases : InitLogic({orderProgram(c)}, {Null}, BOOLEAN)
SpecOrder == InitOrder /\ [][NextLogic]_vars

\* the closure of the case is in a position that its operation does not mark
\* safe
unsafeAt(c) == ~(c.at <= Len(SAFE_FNARGS(c.op)) /\ SAFE_FNARGS(c.op)[c.at])

\* the numbers of the arguments of the root node whose evaluation began
begun(log) == {log[k].p[1] : k \in {m \in 1..Len(log) : log[m].e = "eval" /\ Len(log[m].p) = 1}}

\* the operation of the root node was invoked
invokedRoot(log) == \E k \in 1..Len(log) : log[k].e = "call" /\ log[k].p = <<>>

illegalArgument(out) ==
    out.err = "TypeError" /\ out.msg = "argument is of illegal type 'function'"

MaxArityArgs == 4

ArityTags == {"if", "and", "or", "??", "partial", "var", "arg", "let"}
ArityCases == [tag : ArityTags, argc : 0..MaxArityArgs, place : Placements]

arityArgs(c) ==
    CASE c.tag = "let" /\ c.argc = 2 -> <<Obj(<<"x">>, "x" :> Num(1)), V("x")>>
      [] c.tag = "let" /\ c.argc = 3 -> <<Str("x"), Num(1), V("x")>>
      [] c.tag = "partial" -> [j \in 1..c.argc |-> IF j = 1 THEN Str("array") ELSE Num(j)]
      [] c.tag = "var" -> [j \in 1..c.argc |-> IF j = 1 THEN Str("y") ELSE Str("k")]
      [] c.tag = "arg" -> [j \in 1..c.argc |-> IF j = 1 THEN Num(1) ELSE Str("k")]
      [] OTHER -> [j \in 1..c.argc |-> Num(j)]

arityProgram(c) == Place(c.place, Op(c.tag, arityArgs(c)))

InitArity ==
    \E c \in ArityCases :
        InitLogic({arityProgram(c)}, {Obj(<<"y">>, "y" :> Num(5))}, BOOLEAN)
SpecArity == InitArity /\ [][NextLogic]_vars

\* C36: for every special form with an arity requirement (if needs at least
\* two arguments; and, or, ??, partial, var, arg at least one; let exactly
\* two or three), compileLogic raises a SyntaxError exactly when execLogic
\* would raise a SyntaxError on evaluating that node, independent of where
\* the node occurs in the program and of how much code was emitted before it.
C36_ArityChecksAgree ==
    (execOut.done /\ compiled.done) =>
        (compiled.err = "SyntaxError" <=> execOut.err = "SyntaxError")

(***************************************************************************)
(* partial of a named operation with one closure among the bound           *)
(* arguments.                                                              *)
(***************************************************************************)
MaxBoundArgs == 3

BoundOps == {"array", "id", "map", "reduce"}
\* inner: the partial is the body of a 3-argument let
BoundCases ==
    {c \in [op : BoundOps, n : 1..MaxBoundArgs, at : 1..MaxBoundArgs, inner : BOOLEAN] :
        c.at <= c.n}

boundProgram(c) ==
    LET node == Op("partial", <<Str(c.op)>> \o
                              [j \in 1..c.n |-> IF j = c.at THEN OneFn ELSE Num(j)])
    IN  IF c.inner THEN Let3("x", Num(1), node) ELSE node

InitBound == \E c \in BoundCases : InitLogic({boundProgram(c)}, {Null}, BOOLEAN)
SpecBound == InitBound /\ [][NextLogic]_vars

\* C37: in sandboxed mode the bound arguments of partial applied to a named
\* operator are checked against the safety annotation of the operator being
\* partially applied: a closure bound at a position that operator marks
\* safe (the second argument of reduce, map) is accepted, a closure bound at
\* any other position raises a TypeError, and execLogic and the compiled
\* code behave the same.
C37_PartialUsesTargetAnnotation ==
    \A c \in BoundCases :
        (sameJson(jll, boundProgram(c)) /\ ~allowTuringComplete) =>
            /\ execOut.done =>
                   IF unsafeAt(c) THEN execOut.err = "TypeError"
                   ELSE execOut.err = "" /\ IsFunction(execOut.v)
            /\ vmOut.done =>
                   IF unsafeAt(c) THEN vmOut.err = "TypeError"
                   ELSE vmOut.err = "" /\ IsFunction(vmOut.v)

(***************************************************************************)
(* Host operations that take the place of built-ins with safe closure      *)
(* positions, and a later call of the same program without them.           *)
(***************************************************************************)
MaxOverrideArgs == 3

Overrides == {{"map"}, {"reduce"}, {"map", "reduce"}}
OverrideCases ==
    {c \in [op : {"map", "reduce"}, n : 2..MaxOverrideArgs, at : 1..MaxOverrideArgs] :
        c.at <= c.n}

overrideProgram(c) ==
    Op(c.op, [j \in 1..c.n |-> IF j = c.at THEN OneFn ELSE Op("array", <<Num(j)>>)])

\* the host calls execLogic and compileLogic again, passing no operations
Later ==
    /\ runs < MaxRuns
    /\ execOut.done
    /\ compiled.done
    /\ compiled.err = "" => vmOut.done
    /\ runs' = runs + 1
    /\ operations' = {}
    /\ execOut' = NotRun
    /\ compiled' = NotRun
    /\ vmOut' = NotRun
    /\ UNCHANGED <<src, jll, input, allowTuringComplete, parseOut, given>>

NextOverride == ExecLogic \/ CompileLogic \/ ExecByteCode \/ Later

InitOverride ==
    /\ \E c \in OverrideCases :
           /\ src = <<>>
           /\ parseOut = NotRun
           /\ jll = overrideProgram(c)
           /\ input = Null
           /\ allowTuringComplete \in BOOLEAN
           /\ operations \in Overrides
           /\ execOut = NotRun
           /\ compiled = NotRun
           /\ vmOut = NotRun
           /\ given = input
           /\ runs = 0
SpecOverride == InitOverride /\ [][NextOverride]_vars

\* C38: a host-supplied operation never inherits a built-in's safety
\* annotation: in sandboxed mode, when options.operations overrides map or
\* reduce, a closure passed to the overriding operation at any position
\* raises a TypeError in execLogic and in compile + execByteCode, while in a
\* call made without the override the annotation of the built-in decides
\* again.
C38_OverrideDropsAnnotation ==
    \A c \in OverrideCases :
        (sameJson(jll, overrideProgram(c)) /\ ~allowTuringComplete) =>
            IF c.op \in operations
            THEN /\ execOut.done => illegalArgument(execOut)
                 /\ compiled.done => compiled.err = ""
                 /\ vmOut.done => vmOut.err = "TypeError"
            ELSE /\ execOut.done => (illegalArgument(execOut) <=> unsafeAt(c))
                 /\ compiled.done => compiled.err = ""
                 /\ vmOut.done => (vmOut.err = "TypeError" <=> unsafeAt(c))

\* C38 witness: with map overridden by the host, the sandboxed call of map
\* with a closure as its second argument has raised the TypeError in both
\* engines
C38_Witness ==
    /\ sameJson(jll, overrideProgram([op |-> "map", n |-> 2, at |-> 2]))
    /\ ~allowTuringComplete
    /\ operations = {"map"}
    /\ execOut.done
    /\ illegalArgument(execOut)
    /\ vmOut.done
    /\ vmOut.err = "TypeError"

\* C38 second witness state: the later call without the override has
\* accepted the closure in both engines
C38_LaterCall ==
    /\ sameJson(jll, overrideProgram([op |-> "map", n |-> 2, at |-> 2]))
    /\ ~allowTuringComplete
    /\ runs = 1
    /\ operations = {}
    /\ execOut.done
    /\ execOut.err = ""
    /\ vmOut.done
    /\ vmOut.err = ""

(***************************************************************************)
(* Closures made in an initializer of a chain of 3-argument lets and       *)
(* called in the body of the chain, with 0..MaxGap lets between the        *)
(* closure and the binding it reads.                                       *)
(***************************************************************************)
MaxGap == 2

ChainKinds == {"later", "rebind", "self"}
ChainUses == {"call", "map"}
ChainCases == [kind : ChainKinds, gap : 0..MaxGap, use : ChainUses]

RECURSIVE fillers(_, _)
fillers(g, body) == IF g = 0 THEN body ELSE Let3("z", Num(g), fillers(g - 1, body))

chainUse(c) ==
    IF c.use = "call" THEN Apply(V("f"), <<Num(1)>>)
    ELSE Op("map", <<Op("array", <<Num(1)>>), V("f")>>)

\* 7 for an argument below 1, else what f yields for 0
selfBody ==
    Op("if", <<Op("<", <<Op("arg", <<Num(1)>>), Num(1)>>), Num(7),
               Apply(V("f"), <<Num(0)>>)>>)

chainProgram(c) ==
    CASE c.kind = "later" ->
            Let3("f", Fn0(V("y")), fillers(c.gap, Let3("y", Num(5), chainUse(c))))
      [] c.kind = "rebind" ->
            Let3("y", Num(1),
                 Let3("f", Fn0(V("y")), fillers(c.gap, Let3("y", Num(2), chainUse(c)))))
      [] OTHER -> Let3("f", Fn0(selfBody), fillers(c.gap, chainUse(c)))

InitChain ==
    \E c \in ChainCases :
        InitLogic({chainProgram(c)}, {Null, Obj(<<"y">>, "y" :> Num(9))}, BOOLEAN)
SpecChain == InitChain /\ [][NextLogic]_vars

\* what the call yields when the closure reads the frame as it is at the call
chainValue(c) ==
    LET x == CASE c.kind = "later" -> Num(5) [] c.kind = "rebind" -> Num(2) [] OTHER -> Num(7)
    IN  IF c.use = "call" THEN x ELSE Arr(<<x>>)

\* the cases that sandboxed mode lets run: the closure is handed to map and
\* calls nothing itself
sandboxed(c) == c.use = "map" /\ c.kind # "self"

\* C39: within a flattened chain of 3-argument lets all bindings live in one
\* shared frame: a closure created in an earlier binding's initializer
\* observes a binding made later in the chain, a later rebinding of a name it
\* reads, and its own name; it does not see a snapshot of the frame taken at
\* its creation.
C39_SharedLetFrame ==
    \A c \in ChainCases :
        (sameJson(jll, chainProgram(c)) /\ execOut.done
         /\ (allowTuringComplete \/ sandboxed(c))) =>
            /\ execOut.err = ""
            /\ sameJson(execOut.v, chainValue(c))

\* C39 witness: the closure made before y was rebound, two lets earlier, has
\* been called through map in sandboxed mode with an input that has its own y
C39_Witness ==
    /\ sameJson(jll, chainProgram([kind |-> "rebind", gap |-> 2, use |-> "map"]))
    /\ ~allowTuringComplete
    /\ input.t = "obj"
    /\ execOut.done
    /\ sameJson(execOut.v, Arr(<<Num(2)>>))

(***************************************************************************)
(* var of a name, at the root and under 1..MaxScopeDepth lets, with a null *)
(* input and with an ordinary object as input.                             *)
(***************************************************************************)
MaxScopeDepth == 2

LookupNames == {"y", "z", "constructor", "toString"}
LookupCases == [name : LookupNames, depth : 0..MaxScopeDepth, fresh : BOOLEAN]

RECURSIVE under(_, _)
under(d, body) == IF d = 0 THEN body ELSE Let3("x", Num(d), under(d - 1, body))

\* fresh: the var sits in a 2-argument let, whose scope has no parent
lookupProgram(c) ==
    under(c.depth,
          IF c.fresh THEN Op("let", <<Obj(<<"x">>, "x" :> Num(1)), V(c.name)>>)
          ELSE V(c.name))

LookupInput == Obj(<<"y">>, "y" :> Num(5))

InitLookup ==
    \E c \in LookupCases : InitLogic({lookupProgram(c)}, {Null, LookupInput}, BOOLEAN)
SpecLookup == InitLookup /\ [][NextLogic]_vars

\* what the program and the host have bound under the name
boundValue(c, inp) ==
    IF ~c.fresh /\ inp.t = "obj" /\ c.name \in DOMAIN inp.v THEN inp.v[c.name] ELSE Null

\* C40: a var lookup only ever yields a value bound by the program or the
\* host: a key of the input mapping or a name bound by an enclosing let or
\* fn, and null for a name bound in none of them, even when the input is an
\* ordinary host object that inherits constructor or toString; no var lookup
\* produces a callable the host did not supply.
C40_VarYieldsBoundValues ==
    \A c \in LookupCases :
        sameJson(jll, lookupProgram(c)) =>
            /\ execOut.done =>
                   /\ execOut.err = ""
                   /\ ~IsFunction(execOut.v)
                   /\ sameJson(execOut.v, boundValue(c, given))
            /\ vmOut.done =>
                   /\ vmOut.err = ""
                   /\ ~IsFunction(vmOut.v)
                   /\ sameJson(vmOut.v, boundValue(c, given))
====
